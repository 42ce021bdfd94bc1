-------------------------- MODULE ToolCacheProofs ---------------------------
(***************************************************************************)
(* The safety of ToolCache for any installs, any tools and any number of   *)
(* faults and re-releases.                                                 *)
(*                                                                         *)
(* The invariant has three parts for each install: what it put into its    *)
(* root (Rooted), what it knows of the entry while it has the entry for    *)
(* itself (OwnTurn), and why an undisturbed attempt cannot fail            *)
(* (Undisturbed).  Alone says when another install can be in the way,      *)
(* Owned who can be writing a file, Entry and Revisions what the cached    *)
(* files have to do with one another.                                      *)
(***************************************************************************)
EXTENDS ToolCache, TLAPS

\* A tool that is unpacked, or whose digest vouches for it while no installs overlapped.
Safe == tool \notin Raw \/ (tool \in Checked /\ ~overlap)

\* The kinds of content that are not damaged; a torn one was cut by an interrupt.
Sound == {"none", "whole", "torn"}

\* The root holds what was unpacked.
Rooted(p) ==
    Safe =>
        /\ root[p].support.kind \in Sound
        /\ root[p].binary.kind \in Sound
        /\ pc[p] \in {"support", "binary"} => unpacked[p].kind = "whole"
        /\ pc[p] = "binary" => root[p].support = unpacked[p]
        /\ pc[p] \in {"healthcheck", "done"} =>
              root[p].binary.kind = "whole" /\ root[p].support = root[p].binary

\* An install that works alone finds the entry as it left it.
OwnTurn(p) ==
    alone[p] =>
        /\ pc[p] = "purge" => meta.kind \in {"none", "torn"}
        /\ pc[p] \in {"sums", "sums_open", "sums_arrive", "check"} =>
              known[p] = meta \/ meta.kind \in {"none", "torn"}
        /\ pc[p] = "sums_open" => sums = None
        /\ pc[p] = "sums_arrive" => sums.kind = "part"
        /\ pc[p] \in {"fetch", "fetch_open"} => asset = None
        /\ pc[p] = "fetch_arrive" => asset.kind = "part"
        /\ pc[p] = "record" => asset = digest[p] /\ asset # None
        /\ pc[p] \in {"unpack", "support", "binary", "healthcheck"} => meta = asset
        /\ pc[p] \in {"record", "unpack", "support", "binary", "healthcheck"} /\ tool \in Checked =>
              Matches(asset)
        /\ pc[p] \in {"support", "binary"} => unpacked[p] = asset
        /\ pc[p] \in {"binary", "healthcheck"} => root[p].support = asset
        /\ pc[p] = "healthcheck" => root[p].binary = asset
        /\ pc[p] = "done" /\ tool \in Checked =>
              root[p].binary.kind = "whole" /\ root[p].support = root[p].binary

\* An undisturbed attempt finds what it needs.
Undisturbed(p) ==
    calm[p] /\ ~overlap /\ tool \in Checked /\ release = 1 /\ sums.kind # "bad" =>
        /\ pc[p] # "failed"
        /\ pc[p] = "sums" => sums = None \/ sums.kind = "whole"
        /\ pc[p] = "sums_arrive" => p \in writers["sums"]
        /\ pc[p] \in {"check", "fetch", "fetch_open", "fetch_arrive", "verify"} =>
              sums.kind = "whole"
        /\ pc[p] = "fetch_arrive" => p \in writers["asset"]
        /\ pc[p] = "verify" => asset.kind = "whole"

\* What the invariant says of one install.
ProcInv(p) == Rooted(p) /\ OwnTurn(p) /\ Undisturbed(p)

\* Nobody is at work beside an install that works alone; an undisturbed one
\* does, and so does every install while no two were ever active at once.
Alone ==
    /\ \A p, q \in Procs : alone[p] /\ Active(q) => p = q
    /\ \A p \in Procs : calm[p] => alone[p]
    /\ \A p \in Procs : ~overlap /\ Active(p) => alone[p]

\* A file that is being written exists, and its writers wait for it to arrive.
Owned ==
    /\ \A p \in Procs : p \in writers["sums"] => pc[p] = "sums_arrive" /\ sums # None
    /\ \A p \in Procs : p \in writers["asset"] => pc[p] = "fetch_arrive" /\ asset # None

\* Without an overlap the metadata vouch for a manifest.
Entry ==
    tool \in Checked /\ ~overlap =>
        /\ meta.kind \in Sound
        /\ meta.kind = "whole" => sums.kind \in {"whole", "bad"}

\* Contents are of revisions that were published.
Revision(content) == content = None \/ content.rev \in 1..release

\* What the invariant says of the entry.
EntryInv == Entry /\ Revision(sums) /\ Revision(asset)

\* The inductive invariant.
IInv ==
    /\ TypeOK
    /\ Alone
    /\ Owned
    /\ EntryInv
    /\ \A p \in Procs : ProcInv(p)

-----------------------------------------------------------------------------
\* The two contents that are named are contents.
LEMMA Contents == None \in Content /\ Torn \in Content
  BY ToolAssumption DEF Content, Kinds, None, Torn

\* The invariant holds of an entry that nobody has used yet.
THEOREM InitIInv == Init => IInv
<1> SUFFICES ASSUME Init PROVE IInv
  OBVIOUS
<1>1. TypeOK
  <2>1. /\ meta \in Content /\ sums \in Content /\ asset \in Content
        /\ known \in [Procs -> Content] /\ digest \in [Procs -> Content]
        /\ unpacked \in [Procs -> Content]
    BY Contents DEF Init
  <2>2. root \in [Procs -> [support : Content, binary : Content]]
    BY Contents DEF Init
  <2>3. /\ release \in 1..MaxRelease /\ faults \in 0..MaxFaults
    BY ToolAssumption DEF Init
  <2>4. /\ writers \in [{"sums", "asset"} -> SUBSET Procs] /\ alone \in [Procs -> BOOLEAN]
        /\ pc \in [Procs -> Ended \cup Steps]
        /\ calm \in [Procs -> BOOLEAN] /\ overlap \in BOOLEAN /\ tool \in Tools
    BY DEF Init, Ended
  <2> QED BY <2>1, <2>2, <2>3, <2>4 DEF TypeOK
<1>2. Alone /\ Owned
  BY DEF Init, Alone, Owned, Active, Ended
<1>3. EntryInv
  BY DEF Init, EntryInv, Entry, Revision, None, Sound
<1>4. ASSUME NEW p \in Procs PROVE ProcInv(p)
  BY DEF Init, ProcInv, Rooted, OwnTurn, Undisturbed, Sound, None
<1> QED BY <1>1, <1>2, <1>3, <1>4 DEF IInv

-----------------------------------------------------------------------------
\* What a step of install p leaves alone: the locals and the root of the others.
OthersKept(p) ==
    \A q \in Procs : q # p =>
        /\ pc'[q] = pc[q] /\ known'[q] = known[q] /\ digest'[q] = digest[q]
        /\ unpacked'[q] = unpacked[q] /\ root'[q] = root[q] /\ calm'[q] = calm[q]

\* An install that another one, at work, passes by.
LEMMA OtherInstall ==
    ASSUME NEW q \in Procs, ProcInv(q), tool' = tool,
           pc'[q] = pc[q], unpacked'[q] = unpacked[q], root'[q] = root[q],
           overlap => overlap', ~alone'[q], ~calm'[q]
    PROVE  ProcInv(q)'
<1>1. Rooted(q)'
  BY DEF ProcInv, Rooted, Safe, Sound
<1>2. OwnTurn(q)'
  BY DEF OwnTurn
<1>3. Undisturbed(q)'
  BY DEF Undisturbed
<1> QED BY <1>1, <1>2, <1>3 DEF ProcInv

\* An active install's step keeps the invariant when it keeps its own part.
LEMMA OwnStep ==
    ASSUME IInv, NEW p \in Procs, Active(p), OthersKept(p),
           tool' = tool, alone' = alone, overlap' = overlap, calm'[p] => calm[p],
           TypeOK', Owned', EntryInv', ProcInv(p)'
    PROVE  IInv'
<1>1. \A q \in Procs : q # p => ~calm[q] /\ ~alone[q]
  BY DEF IInv, Alone
<1>2. ASSUME NEW q \in Procs, q # p PROVE ProcInv(q)'
  BY <1>1, <1>2, OtherInstall DEF IInv, OthersKept
<1>3. \A q \in Procs : Active(q)' => Active(q)
  BY DEF OthersKept, Active
<1>4. Alone'
  BY <1>1, <1>3 DEF IInv, Alone, OthersKept
<1> QED BY <1>2, <1>4 DEF IInv

\* Where install p goes, and that nobody else moves.
LEMMA Going ==
    ASSUME TypeOK, NEW p \in Procs, NEW label \in Ended \cup Steps, Goto(p, label)
    PROVE  /\ pc' \in [Procs -> Ended \cup Steps]
           /\ pc'[p] = label
           /\ \A q \in Procs : q # p => pc'[q] = pc[q]
  BY DEF TypeOK, Goto

\* One more fault, or none.
LEMMA Faulted ==
    ASSUME TypeOK, NEW p \in Procs,
           \/ UNCHANGED <<faults, calm>>
           \/ faults < MaxFaults /\ faults' = faults + 1 /\ calm' = [calm EXCEPT ![p] = FALSE]
    PROVE  faults' \in 0..MaxFaults /\ calm' \in [Procs -> BOOLEAN]
<1>1. faults' \in 0..MaxFaults
  BY ToolAssumption DEF TypeOK
<1>2. CASE UNCHANGED <<faults, calm>>
  BY <1>1, <1>2 DEF TypeOK
<1>3. CASE calm' = [calm EXCEPT ![p] = FALSE]
  BY <1>1, <1>3 DEF TypeOK
<1> QED BY <1>2, <1>3

\* Removing what an earlier asset left keeps the invariant (_prepare_cached_asset).
LEMMA PurgeStep ==
    ASSUME IInv, NEW p \in Procs, Purge(p)
    PROVE  IInv'
<1>0. Active(p) /\ TypeOK /\ Alone /\ Owned /\ EntryInv /\ Rooted(p) /\ OwnTurn(p) /\ Undisturbed(p)
  BY DEF IInv, ProcInv, Active, Ended, Purge
<1>a. tool' = tool /\ alone' = alone /\ overlap' = overlap /\ (calm'[p] => calm[p])
  BY <1>0 DEF TypeOK, Purge, Empty, cache, local, history
<1>1. TypeOK'
  <2>1. CASE Empty /\ UNCHANGED <<faults, calm>>
    BY <1>0, <2>1, Contents, Going DEF TypeOK, Purge, Empty, Steps, local
  <2>2. CASE ~(Empty /\ UNCHANGED <<faults, calm>>)
    BY <1>0, <2>2, Going, Faulted DEF TypeOK, Purge, Steps, cache, local
  <2> QED BY <2>1, <2>2
<1>2. OthersKept(p)
  BY <1>0, Going DEF OthersKept, TypeOK, Purge, Ended, Steps, Empty, cache, local, history
<1>3. EntryInv'
  BY <1>0, <1>a, ToolAssumption DEF TypeOK, EntryInv, Entry, Revision, Alone, OwnTurn, Matches, Sound, Content, None, Purge, Empty, cache, local, history
<1>4. Owned'
  BY <1>0, <1>2, Going, ZenonT(40) DEF TypeOK, Owned, OthersKept, Ended, Steps, None, Purge, Goto, Empty, cache, local, history
<1>5. Rooted(p)'
  BY <1>0, <1>a DEF TypeOK, Rooted, Safe, Sound, Alone, Matches, OwnTurn, Purge, Goto, None, Empty, cache, local, history
<1>6. OwnTurn(p)'
  BY <1>0, <1>a DEF TypeOK, OwnTurn, Owned, Alone, Matches, Active, EntryInv, Entry, Purge, Goto, None, Content, Empty, cache, local, history
<1>7. Undisturbed(p)'
  BY <1>0, <1>a DEF TypeOK, OwnTurn, Undisturbed, Owned, Alone, Matches, EntryInv, Entry, Revision, Rooted, Safe, Purge, Goto, None, Content, Empty, cache, local, history
<1> QED BY <1>0, <1>a, <1>1, <1>2, <1>3, <1>4, <1>5, <1>6, <1>7, OwnStep DEF ProcInv

\* Looking for the checksum manifest keeps it.
LEMMA FetchSumsStep ==
    ASSUME IInv, NEW p \in Procs, FetchSums(p)
    PROVE  IInv'
<1>0. Active(p) /\ TypeOK /\ Alone /\ Owned /\ EntryInv /\ Rooted(p) /\ OwnTurn(p) /\ Undisturbed(p)
  BY DEF IInv, ProcInv, Active, Ended, FetchSums
<1>a. tool' = tool /\ alone' = alone /\ overlap' = overlap /\ (calm'[p] => calm[p])
  BY <1>0 DEF TypeOK, FetchSums, cache, local, history
<1>1. TypeOK'
  BY <1>0, Contents, Going DEF TypeOK, FetchSums, Content, Kinds, Ended, Steps, None, cache, local, history
<1>2. OthersKept(p)
  BY <1>0, Going DEF OthersKept, TypeOK, FetchSums, Ended, Steps, cache, local, history
<1>3. EntryInv'
  BY <1>0, <1>a, ToolAssumption DEF TypeOK, EntryInv, Entry, Revision, Alone, OwnTurn, Matches, Sound, Content, None, FetchSums, cache, local, history
<1>4. Owned'
  BY <1>0, <1>2, Going, ZenonT(40) DEF TypeOK, Owned, OthersKept, Ended, Steps, None, FetchSums, Goto, cache, local, history
<1>5. Rooted(p)'
  BY <1>0, <1>a DEF TypeOK, Rooted, Safe, Sound, Alone, Matches, OwnTurn, FetchSums, Goto, None, cache, local, history
<1>6. OwnTurn(p)'
  BY <1>0, <1>a DEF TypeOK, OwnTurn, Owned, Alone, Matches, Active, EntryInv, Entry, FetchSums, Goto, None, Content, cache, local, history
<1>7. Undisturbed(p)'
  BY <1>0, <1>a DEF TypeOK, OwnTurn, Undisturbed, Owned, Alone, Matches, EntryInv, Entry, Revision, Rooted, Safe, FetchSums, Goto, None, Content, cache, local, history
<1> QED BY <1>0, <1>a, <1>1, <1>2, <1>3, <1>4, <1>5, <1>6, <1>7, OwnStep DEF ProcInv

\* So does beginning to write it.
LEMMA OpenSumsStep ==
    ASSUME IInv, NEW p \in Procs, OpenSums(p)
    PROVE  IInv'
<1>0. Active(p) /\ TypeOK /\ Alone /\ Owned /\ EntryInv /\ Rooted(p) /\ OwnTurn(p) /\ Undisturbed(p)
  BY DEF IInv, ProcInv, Active, Ended, OpenSums
<1>a. tool' = tool /\ alone' = alone /\ overlap' = overlap /\ (calm'[p] => calm[p])
  BY <1>0 DEF TypeOK, OpenSums, Opens, cache, local, history
<1>b. /\ sums' \in Content /\ sums'.kind \in {"part", "bad"} /\ sums'.rev = release
      /\ writers["sums"] = {} => sums'.kind = "part"
      /\ writers' = [writers EXCEPT !["sums"] = @ \cup {p}]
  BY <1>0, ToolAssumption DEF TypeOK, OpenSums, Opens, Content, Kinds
<1>1. TypeOK'
  BY <1>0, <1>b, Going DEF TypeOK, OpenSums, Ended, Steps, cache, local, history
<1>2. OthersKept(p)
  BY <1>0, Going DEF OthersKept, TypeOK, OpenSums, Ended, Steps, cache, local, history
<1>3. EntryInv'
  BY <1>0, <1>a, <1>b, ToolAssumption DEF TypeOK, EntryInv, Entry, Revision, Alone, OwnTurn, Matches, Sound, Content, None, OpenSums, cache, local, history
<1>4. Owned'
  BY <1>0, <1>b, Going DEF TypeOK, Owned, Ended, Steps, None, OpenSums, cache, local, history
<1>5. Rooted(p)'
  BY <1>0, <1>a DEF TypeOK, Rooted, Safe, Sound, Alone, Matches, OwnTurn, OpenSums, Goto, None, cache, local, history
<1>6. OwnTurn(p)'
  BY <1>0, <1>a, <1>b DEF TypeOK, OwnTurn, Owned, Alone, Matches, Active, EntryInv, Entry, OpenSums, Goto, None, Content, cache, local, history
<1>7. Undisturbed(p)'
  BY <1>0, <1>a, <1>b DEF TypeOK, OwnTurn, Undisturbed, Owned, Alone, Matches, EntryInv, Entry, Revision, Rooted, Safe, OpenSums, Goto, None, Content, cache, local, history
<1> QED BY <1>0, <1>a, <1>1, <1>2, <1>3, <1>4, <1>5, <1>6, <1>7, OwnStep DEF ProcInv

\* So does its arrival, whole or cut short.
LEMMA SumsArriveStep ==
    ASSUME IInv, NEW p \in Procs, SumsArrive(p)
    PROVE  IInv'
<1>0. Active(p) /\ TypeOK /\ Alone /\ Owned /\ EntryInv /\ Rooted(p) /\ OwnTurn(p) /\ Undisturbed(p)
  BY DEF IInv, ProcInv, Active, Ended, SumsArrive
<1>a. tool' = tool /\ alone' = alone /\ overlap' = overlap /\ (calm'[p] => calm[p])
  BY <1>0 DEF TypeOK, SumsArrive, Arrives, cache, local, history
<1>b. /\ Arrives(p, "sums", sums)
      /\ UNCHANGED <<tool, release, meta, asset, local, root, alone, overlap>>
  BY DEF SumsArrive
<1>c. /\ sums' \in Content /\ sums'.rev = sums.rev
      /\ sums' = sums \/ p \in writers["sums"]
      /\ writers' = [writers EXCEPT !["sums"] = @ \ {p}]
  BY <1>0, <1>b DEF TypeOK, Arrives, Content, Kinds
<1>1. TypeOK'
  <2>1. faults' \in 0..MaxFaults /\ calm' \in [Procs -> BOOLEAN]
    BY <1>0, <1>b, Faulted DEF Arrives
  <2>2. pc' \in [Procs -> Ended \cup Steps]
    BY <1>0, Going DEF SumsArrive, Steps
  <2> QED BY <1>0, <1>b, <1>c, <2>1, <2>2 DEF TypeOK, local
<1>2. OthersKept(p)
  BY <1>0, Going DEF OthersKept, TypeOK, SumsArrive, Ended, Steps, Arrives, cache, local, history
<1>3. EntryInv'
  <2>1. Revision(sums)' /\ Revision(asset)'
    BY <1>0, <1>b, <1>c DEF EntryInv, Revision, Owned
  <2>2. Entry'
    BY <1>0, <1>b, <1>c DEF EntryInv, Entry, Alone, OwnTurn, SumsArrive
  <2> QED BY <2>1, <2>2 DEF EntryInv
<1>4. Owned'
  <2>1. sums # None /\ writers["sums"] # {} => sums' # None
    BY <1>0, <1>c DEF EntryInv, Revision, TypeOK, None
  <2> QED BY <1>0, <1>b, <1>c, <2>1, Going DEF TypeOK, Owned, SumsArrive, Steps
<1>5. Rooted(p)'
  BY <1>0, <1>a DEF TypeOK, Rooted, Safe, Sound, Alone, Matches, OwnTurn, SumsArrive, Goto, None, Arrives, cache, local, history
<1>6. OwnTurn(p)'
  BY <1>0, <1>a DEF TypeOK, OwnTurn, Owned, Alone, Matches, Active, EntryInv, Entry, SumsArrive, Goto, None, Content, Arrives, cache, local, history
<1>7. Undisturbed(p)'
  BY <1>0, <1>a DEF TypeOK, OwnTurn, Undisturbed, Owned, Alone, Matches, EntryInv, Entry, Revision, Rooted, Safe, SumsArrive, Goto, None, Content, Arrives, cache, local, history
<1> QED BY <1>0, <1>a, <1>1, <1>2, <1>3, <1>4, <1>5, <1>6, <1>7, OwnStep DEF ProcInv

\* So does checking the cached asset against the manifest.
LEMMA CheckCachedStep ==
    ASSUME IInv, NEW p \in Procs, CheckCached(p)
    PROVE  IInv'
<1>0. Active(p) /\ TypeOK /\ Alone /\ Owned /\ EntryInv /\ Rooted(p) /\ OwnTurn(p) /\ Undisturbed(p)
  BY DEF IInv, ProcInv, Active, Ended, CheckCached
<1>a. tool' = tool /\ alone' = alone /\ overlap' = overlap /\ (calm'[p] => calm[p])
  BY <1>0 DEF TypeOK, CheckCached, Stale, Unlink, Matches, cache, local, history
<1>1. TypeOK'
  <2>1. asset' \in Content /\ writers' \in [{"sums", "asset"} -> SUBSET Procs]
    BY <1>0, Contents DEF TypeOK, CheckCached, Unlink
  <2>2. digest' \in [Procs -> Content]
    BY <1>0, Contents DEF TypeOK, CheckCached
  <2>3. pc' \in [Procs -> Ended \cup Steps]
    BY <1>0, Going DEF CheckCached, Ended, Steps
  <2> QED BY <1>0, <2>1, <2>2, <2>3 DEF TypeOK, CheckCached, history
<1>2. OthersKept(p)
  BY <1>0, Going DEF OthersKept, TypeOK, CheckCached, Ended, Steps, Stale, Unlink, Matches, cache, local, history
<1>3. EntryInv'
  BY <1>0, <1>a, ToolAssumption DEF TypeOK, EntryInv, Entry, Revision, Alone, OwnTurn, Matches, Sound, Content, None, CheckCached, Stale, Unlink, Matches, cache, local, history
<1>4. Owned'
  BY <1>0, <1>2, Going, ZenonT(40) DEF TypeOK, Owned, OthersKept, Ended, Steps, None, CheckCached, Goto, Stale, Unlink, Matches, cache, local, history
<1>5. Rooted(p)'
  BY <1>0, <1>a DEF TypeOK, Rooted, Safe, Sound, Alone, Matches, OwnTurn, CheckCached, Goto, None, Stale, Unlink, Matches, cache, local, history
<1>6. OwnTurn(p)'
  BY <1>0, <1>a DEF TypeOK, OwnTurn, Owned, Alone, Matches, Active, EntryInv, Entry, CheckCached, Goto, None, Content, Stale, Unlink, Matches, cache, local, history
<1>7. Undisturbed(p)'
  BY <1>0, <1>a DEF TypeOK, OwnTurn, Undisturbed, Owned, Alone, Matches, EntryInv, Entry, Revision, Rooted, Safe, CheckCached, Goto, None, Content, Stale, Unlink, Matches, cache, local, history
<1> QED BY <1>0, <1>a, <1>1, <1>2, <1>3, <1>4, <1>5, <1>6, <1>7, OwnStep DEF ProcInv

\* So does looking for the asset once more.
LEMMA FetchAssetStep ==
    ASSUME IInv, NEW p \in Procs, FetchAsset(p)
    PROVE  IInv'
<1>0. Active(p) /\ TypeOK /\ Alone /\ Owned /\ EntryInv /\ Rooted(p) /\ OwnTurn(p) /\ Undisturbed(p)
  BY DEF IInv, ProcInv, Active, Ended, FetchAsset
<1>a. tool' = tool /\ alone' = alone /\ overlap' = overlap /\ (calm'[p] => calm[p])
  BY <1>0 DEF TypeOK, FetchAsset, cache, local, history
<1>1. TypeOK'
  BY <1>0, Contents, Going DEF TypeOK, FetchAsset, Content, Kinds, Ended, Steps, None, cache, local, history
<1>2. OthersKept(p)
  BY <1>0, Going DEF OthersKept, TypeOK, FetchAsset, Ended, Steps, cache, local, history
<1>3. EntryInv'
  BY <1>0, <1>a, ToolAssumption DEF TypeOK, EntryInv, Entry, Revision, Alone, OwnTurn, Matches, Sound, Content, None, FetchAsset, cache, local, history
<1>4. Owned'
  BY <1>0, <1>2, Going, ZenonT(40) DEF TypeOK, Owned, OthersKept, Ended, Steps, None, FetchAsset, Goto, cache, local, history
<1>5. Rooted(p)'
  BY <1>0, <1>a DEF TypeOK, Rooted, Safe, Sound, Alone, Matches, OwnTurn, FetchAsset, Goto, None, cache, local, history
<1>6. OwnTurn(p)'
  BY <1>0, <1>a DEF TypeOK, OwnTurn, Owned, Alone, Matches, Active, EntryInv, Entry, FetchAsset, Goto, None, Content, cache, local, history
<1>7. Undisturbed(p)'
  BY <1>0, <1>a DEF TypeOK, OwnTurn, Undisturbed, Owned, Alone, Matches, EntryInv, Entry, Revision, Rooted, Safe, FetchAsset, Goto, None, Content, cache, local, history
<1> QED BY <1>0, <1>a, <1>1, <1>2, <1>3, <1>4, <1>5, <1>6, <1>7, OwnStep DEF ProcInv

\* So does beginning to write it.
LEMMA OpenAssetStep ==
    ASSUME IInv, NEW p \in Procs, OpenAsset(p)
    PROVE  IInv'
<1>0. Active(p) /\ TypeOK /\ Alone /\ Owned /\ EntryInv /\ Rooted(p) /\ OwnTurn(p) /\ Undisturbed(p)
  BY DEF IInv, ProcInv, Active, Ended, OpenAsset
<1>a. tool' = tool /\ alone' = alone /\ overlap' = overlap /\ (calm'[p] => calm[p])
  BY <1>0 DEF TypeOK, OpenAsset, Opens, cache, local, history
<1>b. /\ asset' \in Content /\ asset'.kind \in {"part", "bad"} /\ asset'.rev = release
      /\ writers["asset"] = {} => asset'.kind = "part"
      /\ writers' = [writers EXCEPT !["asset"] = @ \cup {p}]
  BY <1>0, ToolAssumption DEF TypeOK, OpenAsset, Opens, Content, Kinds
<1>1. TypeOK'
  BY <1>0, <1>b, Going DEF TypeOK, OpenAsset, Ended, Steps, cache, local, history
<1>2. OthersKept(p)
  BY <1>0, Going DEF OthersKept, TypeOK, OpenAsset, Ended, Steps, cache, local, history
<1>3. EntryInv'
  BY <1>0, <1>a, <1>b, ToolAssumption DEF TypeOK, EntryInv, Entry, Revision, Alone, OwnTurn, Matches, Sound, Content, None, OpenAsset, cache, local, history
<1>4. Owned'
  BY <1>0, <1>b, Going DEF TypeOK, Owned, Ended, Steps, None, OpenAsset, cache, local, history
<1>5. Rooted(p)'
  BY <1>0, <1>a DEF TypeOK, Rooted, Safe, Sound, Alone, Matches, OwnTurn, OpenAsset, Goto, None, cache, local, history
<1>6. OwnTurn(p)'
  BY <1>0, <1>a, <1>b DEF TypeOK, OwnTurn, Owned, Alone, Matches, Active, EntryInv, Entry, OpenAsset, Goto, None, Content, cache, local, history
<1>7. Undisturbed(p)'
  BY <1>0, <1>a, <1>b DEF TypeOK, OwnTurn, Undisturbed, Owned, Alone, Matches, EntryInv, Entry, Revision, Rooted, Safe, OpenAsset, Goto, None, Content, cache, local, history
<1> QED BY <1>0, <1>a, <1>1, <1>2, <1>3, <1>4, <1>5, <1>6, <1>7, OwnStep DEF ProcInv

\* So does its arrival, whole or cut short.
LEMMA AssetArrivesStep ==
    ASSUME IInv, NEW p \in Procs, AssetArrives(p)
    PROVE  IInv'
<1>0. Active(p) /\ TypeOK /\ Alone /\ Owned /\ EntryInv /\ Rooted(p) /\ OwnTurn(p) /\ Undisturbed(p)
  BY DEF IInv, ProcInv, Active, Ended, AssetArrives
<1>a. tool' = tool /\ alone' = alone /\ overlap' = overlap /\ (calm'[p] => calm[p])
  BY <1>0 DEF TypeOK, AssetArrives, Arrives, cache, local, history
<1>b. /\ Arrives(p, "asset", asset)
      /\ UNCHANGED <<tool, release, meta, sums, local, root, alone, overlap>>
  BY DEF AssetArrives
<1>c. /\ asset' \in Content /\ asset'.rev = asset.rev
      /\ asset' = asset \/ p \in writers["asset"]
      /\ writers' = [writers EXCEPT !["asset"] = @ \ {p}]
  BY <1>0, <1>b DEF TypeOK, Arrives, Content, Kinds
<1>1. TypeOK'
  <2>1. faults' \in 0..MaxFaults /\ calm' \in [Procs -> BOOLEAN]
    BY <1>0, <1>b, Faulted DEF Arrives
  <2>2. pc' \in [Procs -> Ended \cup Steps]
    BY <1>0, Going DEF AssetArrives, Steps
  <2> QED BY <1>0, <1>b, <1>c, <2>1, <2>2 DEF TypeOK, local
<1>2. OthersKept(p)
  BY <1>0, Going DEF OthersKept, TypeOK, AssetArrives, Ended, Steps, Arrives, cache, local, history
<1>3. EntryInv'
  <2>1. Revision(asset)' /\ Revision(sums)'
    BY <1>0, <1>b, <1>c DEF EntryInv, Revision, Owned
  <2>2. Entry'
    BY <1>0, <1>b, <1>c DEF EntryInv, Entry, Alone, OwnTurn, AssetArrives
  <2> QED BY <2>1, <2>2 DEF EntryInv
<1>4. Owned'
  <2>1. asset # None /\ writers["asset"] # {} => asset' # None
    BY <1>0, <1>c DEF EntryInv, Revision, TypeOK, None
  <2> QED BY <1>0, <1>b, <1>c, <2>1, Going DEF TypeOK, Owned, AssetArrives, Steps
<1>5. Rooted(p)'
  BY <1>0, <1>a DEF TypeOK, Rooted, Safe, Sound, Alone, Matches, OwnTurn, AssetArrives, Goto, None, Arrives, cache, local, history
<1>6. OwnTurn(p)'
  BY <1>0, <1>a DEF TypeOK, OwnTurn, Owned, Alone, Matches, Active, EntryInv, Entry, AssetArrives, Goto, None, Content, Arrives, cache, local, history
<1>7. Undisturbed(p)'
  BY <1>0, <1>a DEF TypeOK, OwnTurn, Undisturbed, Owned, Alone, Matches, EntryInv, Entry, Revision, Rooted, Safe, AssetArrives, Goto, None, Content, Arrives, cache, local, history
<1> QED BY <1>0, <1>a, <1>1, <1>2, <1>3, <1>4, <1>5, <1>6, <1>7, OwnStep DEF ProcInv

\* So does verifying the asset: only one that matches is kept for what follows.
LEMMA VerifyStep ==
    ASSUME IInv, NEW p \in Procs, Verify(p)
    PROVE  IInv'
<1>0. Active(p) /\ TypeOK /\ Alone /\ Owned /\ EntryInv /\ Rooted(p) /\ OwnTurn(p) /\ Undisturbed(p)
  BY DEF IInv, ProcInv, Active, Ended, Verify
<1>a. tool' = tool /\ alone' = alone /\ overlap' = overlap /\ (calm'[p] => calm[p])
  BY <1>0 DEF TypeOK, Verify, Matches, cache, local, history
<1>1. TypeOK'
  BY <1>0, Contents, Going DEF TypeOK, Verify, Content, Kinds, Ended, Steps, None, Matches, cache, local, history
<1>2. OthersKept(p)
  BY <1>0, Going DEF OthersKept, TypeOK, Verify, Ended, Steps, Matches, cache, local, history
<1>3. EntryInv'
  BY <1>0, <1>a, ToolAssumption DEF TypeOK, EntryInv, Entry, Revision, Alone, OwnTurn, Matches, Sound, Content, None, Verify, Matches, cache, local, history
<1>4. Owned'
  BY <1>0, <1>2, Going, ZenonT(40) DEF TypeOK, Owned, OthersKept, Ended, Steps, None, Verify, Goto, Matches, cache, local, history
<1>5. Rooted(p)'
  BY <1>0, <1>a DEF TypeOK, Rooted, Safe, Sound, Alone, Matches, OwnTurn, Verify, Goto, None, Matches, cache, local, history
<1>6. OwnTurn(p)'
  BY <1>0, <1>a DEF TypeOK, OwnTurn, Owned, Alone, Matches, Active, EntryInv, Entry, Verify, Goto, None, Content, Matches, cache, local, history
<1>7. Undisturbed(p)'
  BY <1>0, <1>a DEF TypeOK, OwnTurn, Undisturbed, Owned, Alone, Matches, EntryInv, Entry, Revision, Rooted, Safe, Verify, Goto, None, Content, Matches, cache, local, history
<1> QED BY <1>0, <1>a, <1>1, <1>2, <1>3, <1>4, <1>5, <1>6, <1>7, OwnStep DEF ProcInv

\* So does writing the metadata.
LEMMA RecordStep ==
    ASSUME IInv, NEW p \in Procs, Record(p)
    PROVE  IInv'
<1>0. Active(p) /\ TypeOK /\ Alone /\ Owned /\ EntryInv /\ Rooted(p) /\ OwnTurn(p) /\ Undisturbed(p)
  BY DEF IInv, ProcInv, Active, Ended, Record
<1>a. tool' = tool /\ alone' = alone /\ overlap' = overlap /\ (calm'[p] => calm[p])
  BY <1>0 DEF TypeOK, Record, cache, local, history
<1>1. TypeOK'
  BY <1>0, Contents, Going DEF TypeOK, Record, Content, Kinds, Ended, Steps, None, cache, local, history
<1>2. OthersKept(p)
  BY <1>0, Going DEF OthersKept, TypeOK, Record, Ended, Steps, cache, local, history
<1>3. EntryInv'
  BY <1>0, <1>a, ToolAssumption DEF TypeOK, EntryInv, Entry, Revision, Alone, OwnTurn, Matches, Sound, Content, None, Record, cache, local, history
<1>4. Owned'
  BY <1>0, <1>2, Going, ZenonT(40) DEF TypeOK, Owned, OthersKept, Ended, Steps, None, Record, Goto, cache, local, history
<1>5. Rooted(p)'
  BY <1>0, <1>a DEF TypeOK, Rooted, Safe, Sound, Alone, Matches, OwnTurn, Record, Goto, None, cache, local, history
<1>6. OwnTurn(p)'
  BY <1>0, <1>a DEF TypeOK, OwnTurn, Owned, Alone, Matches, Active, EntryInv, Entry, Record, Goto, None, Content, cache, local, history
<1>7. Undisturbed(p)'
  BY <1>0, <1>a DEF TypeOK, OwnTurn, Undisturbed, Owned, Alone, Matches, EntryInv, Entry, Revision, Rooted, Safe, Record, Goto, None, Content, cache, local, history
<1> QED BY <1>0, <1>a, <1>1, <1>2, <1>3, <1>4, <1>5, <1>6, <1>7, OwnStep DEF ProcInv

\* So does unpacking, which notices an archive that is cut.
LEMMA UnpackStep ==
    ASSUME IInv, NEW p \in Procs, Unpack(p)
    PROVE  IInv'
<1>0. Active(p) /\ TypeOK /\ Alone /\ Owned /\ EntryInv /\ Rooted(p) /\ OwnTurn(p) /\ Undisturbed(p)
  BY DEF IInv, ProcInv, Active, Ended, Unpack
<1>a. tool' = tool /\ alone' = alone /\ overlap' = overlap /\ (calm'[p] => calm[p])
  BY <1>0 DEF TypeOK, Unpack, cache, local, history
<1>1. TypeOK'
  BY <1>0, Contents, Going DEF TypeOK, Unpack, Content, Kinds, Ended, Steps, None, cache, local, history
<1>2. OthersKept(p)
  BY <1>0, Going DEF OthersKept, TypeOK, Unpack, Ended, Steps, cache, local, history
<1>3. EntryInv'
  BY <1>0, <1>a, ToolAssumption DEF TypeOK, EntryInv, Entry, Revision, Alone, OwnTurn, Matches, Sound, Content, None, Unpack, cache, local, history
<1>4. Owned'
  BY <1>0, <1>2, Going, ZenonT(40) DEF TypeOK, Owned, OthersKept, Ended, Steps, None, Unpack, Goto, cache, local, history
<1>5. Rooted(p)'
  BY <1>0, <1>a DEF TypeOK, Rooted, Safe, Sound, Alone, Matches, OwnTurn, Unpack, Goto, None, cache, local, history
<1>6. OwnTurn(p)'
  BY <1>0, <1>a DEF TypeOK, OwnTurn, Owned, Alone, Matches, Active, EntryInv, Entry, Unpack, Goto, None, Content, cache, local, history
<1>7. Undisturbed(p)'
  BY <1>0, <1>a DEF TypeOK, OwnTurn, Undisturbed, Owned, Alone, Matches, EntryInv, Entry, Revision, Rooted, Safe, Unpack, Goto, None, Content, cache, local, history
<1> QED BY <1>0, <1>a, <1>1, <1>2, <1>3, <1>4, <1>5, <1>6, <1>7, OwnStep DEF ProcInv

\* So does copying the support files (_install_support_path).
LEMMA InstallSupportStep ==
    ASSUME IInv, NEW p \in Procs, InstallSupport(p)
    PROVE  IInv'
<1>0. Active(p) /\ TypeOK /\ Alone /\ Owned /\ EntryInv /\ Rooted(p) /\ OwnTurn(p) /\ Undisturbed(p)
  BY DEF IInv, ProcInv, Active, Ended, InstallSupport
<1>a. tool' = tool /\ alone' = alone /\ overlap' = overlap /\ (calm'[p] => calm[p])
  BY <1>0 DEF TypeOK, InstallSupport, cache, local, history
<1>1. TypeOK'
  <2>1. root' \in [Procs -> [support : Content, binary : Content]]
    BY <1>0 DEF TypeOK, InstallSupport
  <2> QED BY <1>0, <2>1, Contents, Going DEF TypeOK, InstallSupport, Ended, Steps, cache, local, history
<1>2. OthersKept(p)
  BY <1>0, Going DEF OthersKept, TypeOK, InstallSupport, Ended, Steps, cache, local, history
<1>3. EntryInv'
  BY <1>0, <1>a, ToolAssumption DEF TypeOK, EntryInv, Entry, Revision, Alone, OwnTurn, Matches, Sound, Content, None, InstallSupport, cache, local, history
<1>4. Owned'
  BY <1>0, <1>2, Going, ZenonT(40) DEF TypeOK, Owned, OthersKept, Ended, Steps, None, InstallSupport, Goto, cache, local, history
<1>5. Rooted(p)'
  BY <1>0, <1>a DEF TypeOK, Rooted, Safe, Sound, Alone, Matches, OwnTurn, InstallSupport, Goto, None, cache, local, history
<1>6. OwnTurn(p)'
  BY <1>0, <1>a DEF TypeOK, OwnTurn, Owned, Alone, Matches, Active, EntryInv, Entry, InstallSupport, Goto, None, Content, cache, local, history
<1>7. Undisturbed(p)'
  BY <1>0, <1>a DEF TypeOK, OwnTurn, Undisturbed, Owned, Alone, Matches, EntryInv, Entry, Revision, Rooted, Safe, InstallSupport, Goto, None, Content, cache, local, history
<1> QED BY <1>0, <1>a, <1>1, <1>2, <1>3, <1>4, <1>5, <1>6, <1>7, OwnStep DEF ProcInv

\* So does copying the binary (_install_binary).
LEMMA InstallBinaryStep ==
    ASSUME IInv, NEW p \in Procs, InstallBinary(p)
    PROVE  IInv'
<1>0. Active(p) /\ TypeOK /\ Alone /\ Owned /\ EntryInv /\ Rooted(p) /\ OwnTurn(p) /\ Undisturbed(p)
  BY DEF IInv, ProcInv, Active, Ended, InstallBinary
<1>a. tool' = tool /\ alone' = alone /\ overlap' = overlap /\ (calm'[p] => calm[p])
  BY <1>0 DEF TypeOK, InstallBinary, cache, local, history
<1>1. TypeOK'
  <2>1. root' \in [Procs -> [support : Content, binary : Content]]
    BY <1>0 DEF TypeOK, InstallBinary
  <2> QED BY <1>0, <2>1, Contents, Going DEF TypeOK, InstallBinary, Ended, Steps, cache, local, history
<1>2. OthersKept(p)
  BY <1>0, Going DEF OthersKept, TypeOK, InstallBinary, Ended, Steps, cache, local, history
<1>3. EntryInv'
  BY <1>0, <1>a, ToolAssumption DEF TypeOK, EntryInv, Entry, Revision, Alone, OwnTurn, Matches, Sound, Content, None, InstallBinary, cache, local, history
<1>4. Owned'
  BY <1>0, <1>2, Going, ZenonT(40) DEF TypeOK, Owned, OthersKept, Ended, Steps, None, InstallBinary, Goto, cache, local, history
<1>5. Rooted(p)'
  BY <1>0, <1>a DEF TypeOK, Rooted, Safe, Sound, Alone, Matches, OwnTurn, InstallBinary, Goto, None, cache, local, history
<1>6. OwnTurn(p)'
  BY <1>0, <1>a DEF TypeOK, OwnTurn, Owned, Alone, Matches, Active, EntryInv, Entry, InstallBinary, Goto, None, Content, cache, local, history
<1>7. Undisturbed(p)'
  BY <1>0, <1>a DEF TypeOK, OwnTurn, Undisturbed, Owned, Alone, Matches, EntryInv, Entry, Revision, Rooted, Safe, InstallBinary, Goto, None, Content, cache, local, history
<1> QED BY <1>0, <1>a, <1>1, <1>2, <1>3, <1>4, <1>5, <1>6, <1>7, OwnStep DEF ProcInv

\* So does running it (_run_healthcheck).
LEMMA HealthcheckStep ==
    ASSUME IInv, NEW p \in Procs, Healthcheck(p)
    PROVE  IInv'
<1>0. Active(p) /\ TypeOK /\ Alone /\ Owned /\ EntryInv /\ Rooted(p) /\ OwnTurn(p) /\ Undisturbed(p)
  BY DEF IInv, ProcInv, Active, Ended, Healthcheck
<1>a. tool' = tool /\ alone' = alone /\ overlap' = overlap /\ (calm'[p] => calm[p])
  BY <1>0 DEF TypeOK, Healthcheck, cache, local, history
<1>1. TypeOK'
  BY <1>0, Contents, Going DEF TypeOK, Healthcheck, Content, Kinds, Ended, Steps, None, cache, local, history
<1>2. OthersKept(p)
  BY <1>0, Going DEF OthersKept, TypeOK, Healthcheck, Ended, Steps, cache, local, history
<1>3. EntryInv'
  BY <1>0, <1>a, ToolAssumption DEF TypeOK, EntryInv, Entry, Revision, Alone, OwnTurn, Matches, Sound, Content, None, Healthcheck, cache, local, history
<1>4. Owned'
  BY <1>0, <1>2, Going, ZenonT(40) DEF TypeOK, Owned, OthersKept, Ended, Steps, None, Healthcheck, Goto, cache, local, history
<1>5. Rooted(p)'
  BY <1>0, <1>a DEF TypeOK, Rooted, Safe, Sound, Alone, Matches, OwnTurn, Healthcheck, Goto, None, cache, local, history
<1>6. OwnTurn(p)'
  BY <1>0, <1>a DEF TypeOK, OwnTurn, Owned, Alone, Matches, Active, EntryInv, Entry, Healthcheck, Goto, None, Content, cache, local, history
<1>7. Undisturbed(p)'
  BY <1>0, <1>a DEF TypeOK, OwnTurn, Undisturbed, Owned, Alone, Matches, EntryInv, Entry, Revision, Rooted, Safe, Healthcheck, Goto, None, Content, cache, local, history
<1> QED BY <1>0, <1>a, <1>1, <1>2, <1>3, <1>4, <1>5, <1>6, <1>7, OwnStep DEF ProcInv

\* So does an install that fails or is interrupted, wherever it is.
LEMMA FailsStep ==
    ASSUME IInv, NEW p \in Procs, Fails(p)
    PROVE  IInv'
<1>0. Active(p) /\ TypeOK /\ Alone /\ Owned /\ EntryInv /\ Rooted(p) /\ OwnTurn(p) /\ Undisturbed(p)
  BY DEF IInv, ProcInv, Active, Ended, Fails
<1>a. tool' = tool /\ alone' = alone /\ overlap' = overlap /\ (calm'[p] => calm[p])
  BY <1>0 DEF TypeOK, Fails, cache, local, history
<1>b. meta' \in {meta, Torn} /\ pc'[p] = "failed"
  BY <1>0, Going DEF Fails, Ended
<1>c. root' \in {root, [root EXCEPT ![p].support = Torn], [root EXCEPT ![p].binary = Torn]}
  BY DEF Fails
<1>d. /\ root' \in [Procs -> [support : Content, binary : Content]]
      /\ root'[p].support \in {root[p].support, Torn}
      /\ root'[p].binary \in {root[p].binary, Torn}
  BY <1>0, <1>c, Contents, SMTT(30) DEF TypeOK
<1>1. TypeOK'
  <2>1. pc' \in [Procs -> Ended \cup Steps]
    BY <1>0, Going DEF Fails, Ended
  <2>2. faults' \in 0..MaxFaults /\ calm' \in [Procs -> BOOLEAN]
    BY <1>0, Faulted DEF Fails
  <2>3. /\ known' \in [Procs -> Content] /\ digest' \in [Procs -> Content]
        /\ unpacked' \in [Procs -> Content]
    BY <1>0, Contents DEF TypeOK, Fails
  <2> QED BY <1>0, <1>b, <1>d, <2>1, <2>2, <2>3, Contents DEF TypeOK, Fails
<1>2. OthersKept(p)
  BY <1>0, Going DEF OthersKept, TypeOK, Fails, Ended, Steps, cache, local, history
<1>3. EntryInv'
  <2>1. UNCHANGED <<release, tool, sums, asset, overlap>>
    BY DEF Fails
  <2> QED BY <1>0, <1>b, <2>1 DEF EntryInv, Entry, Revision, Sound, Torn
<1>4. Owned'
  BY <1>0, <1>2, Going, ZenonT(40) DEF TypeOK, Owned, OthersKept, Ended, Steps, None, Fails, Goto, cache, local, history
<1>5. Rooted(p)'
  BY <1>0, <1>a, <1>b, <1>d DEF Rooted, Safe, Sound, Torn
<1>6. OwnTurn(p)'
  BY <1>0, <1>a DEF TypeOK, OwnTurn, Owned, Alone, Matches, Active, EntryInv, Entry, Fails, Goto, None, Content, cache, local, history
<1>7. Undisturbed(p)'
  BY <1>0, <1>a DEF TypeOK, OwnTurn, Undisturbed, Owned, Alone, Matches, EntryInv, Entry, Revision, Rooted, Safe, Fails, Goto, None, Content, cache, local, history
<1> QED BY <1>0, <1>a, <1>1, <1>2, <1>3, <1>4, <1>5, <1>6, <1>7, OwnStep DEF ProcInv

-----------------------------------------------------------------------------
(***************************************************************************)
(* The steps that no install is in the middle of.                          *)
(***************************************************************************)
LEMMA BeginStep ==
    ASSUME IInv, NEW p \in Procs, Begin(p)
    PROVE  IInv'
<1>0. TypeOK /\ EntryInv /\ ProcInv(p) /\ ~Active(p)
  BY DEF IInv, Begin
<1>1. /\ UNCHANGED <<tool, release, meta, sums, asset, writers, root, faults>>
      /\ overlap => overlap'
      /\ \A q \in Procs : q # p => ~calm'[q] /\ ~alone'[q] /\ pc'[q] = pc[q]
      /\ \A q \in Procs : Active(q) => overlap' /\ ~alone'[p]
      /\ calm'[p] => alone'[p]
      /\ ~overlap' => alone'[p]
  BY <1>0 DEF Begin, Joins, TypeOK, Goto, cache
<1>2. TypeOK'
  <2>1. pc' \in [Procs -> Ended \cup Steps]
    BY <1>0, Going DEF Begin, Steps
  <2>2. /\ known' \in [Procs -> Content] /\ digest' \in [Procs -> Content]
        /\ unpacked' \in [Procs -> Content]
    BY <1>0, Contents DEF TypeOK, Begin
  <2>3. calm' \in [Procs -> BOOLEAN] /\ alone' \in [Procs -> BOOLEAN] /\ overlap' \in BOOLEAN
    BY <1>0 DEF TypeOK, Begin, Joins
  <2> QED BY <1>0, <1>1, <2>1, <2>2, <2>3 DEF TypeOK
<1>3. EntryInv'
  BY <1>0, <1>1 DEF EntryInv, Entry, Revision
<1>8. Owned'
  BY <1>0, <1>1 DEF IInv, Owned, Active, Ended
<1>4. ASSUME NEW q \in Procs, q # p PROVE ProcInv(q)'
  <2>1. unpacked'[q] = unpacked[q] /\ root'[q] = root[q]
    BY <1>0, <1>4 DEF Begin, TypeOK
  <2> QED BY <1>1, <1>4, <2>1, OtherInstall DEF IInv
<1>5. ProcInv(p)'
  <2>1. /\ pc'[p] \in {"purge", "sums"}
        /\ pc'[p] = "purge" => meta.kind \in {"none", "torn"}
        /\ pc'[p] = "sums" => known'[p] = meta /\ meta.kind \notin {"none", "torn"}
    BY <1>0 DEF Begin, TypeOK, Goto, metadata_matches
  <2>2. Rooted(p)' /\ OwnTurn(p)'
    BY <1>0, <1>1, <2>1 DEF ProcInv, Rooted, OwnTurn, Safe, Sound
  <2>3. Undisturbed(p)'
    BY <1>0, <1>1, <2>1 DEF EntryInv, Entry, Sound, Undisturbed
  <2> QED BY <2>2, <2>3 DEF ProcInv
<1>6. Alone'
  <2>1. \A q \in Procs : Active(q)' => Active(q) \/ q = p
    BY <1>1 DEF Active
  <2> QED BY <1>1, <2>1 DEF Alone, IInv
<1> QED BY <1>2, <1>3, <1>4, <1>5, <1>6, <1>8 DEF IInv

\* So does the upstream project when it publishes the tag again.
LEMMA RereleaseStep ==
    ASSUME IInv, Rerelease
    PROVE  IInv'
<1>1. TypeOK'
  <2>1. release' \in 1..MaxRelease /\ calm' \in [Procs -> BOOLEAN]
    BY ToolAssumption DEF IInv, TypeOK, Rerelease
  <2> QED BY <2>1 DEF IInv, TypeOK, Rerelease, cache, local
<1>2. EntryInv'
  BY DEF IInv, TypeOK, EntryInv, Entry, Revision, Rerelease, cache
<1>3. ASSUME NEW p \in Procs PROVE ProcInv(p)'
  <2>1. ProcInv(p) /\ ~calm'[p]
    BY DEF IInv, Rerelease
  <2>2. Rooted(p)' /\ OwnTurn(p)'
    BY <2>1 DEF ProcInv, Rooted, OwnTurn, Matches, Safe, Rerelease, cache, local
  <2> QED BY <2>1, <2>2 DEF ProcInv, Undisturbed
<1>4. Alone' /\ Owned'
  BY DEF IInv, Alone, Owned, Active, Rerelease, cache
<1> QED BY <1>1, <1>2, <1>3, <1>4 DEF IInv

\* So does a cached file that is lost or cut.
LEMMA DecayStep ==
    ASSUME IInv, Decay
    PROVE  IInv'
<1>0. /\ TypeOK /\ EntryInv
      /\ UNCHANGED <<tool, release, meta, writers, pc, known, digest, unpacked, root, calm, alone, overlap>>
      /\ \A p \in Procs : ~Active(p)
  BY DEF IInv, Decay, local, history
<1>1. /\ sums' = sums \/ (sums # None /\ sums' = [sums EXCEPT !.kind = "bad"])
      /\ asset' = asset \/ (asset # None /\ asset' = [asset EXCEPT !.kind = "bad"])
  BY DEF Decay
<1>2. /\ sums' \in Content /\ sums'.rev = sums.rev /\ (sums' = None => sums = None)
      /\ asset' \in Content /\ asset'.rev = asset.rev /\ (asset' = None => asset = None)
      /\ sums'.kind = "bad" \/ sums' = sums
  BY <1>0, <1>1 DEF TypeOK, Content, Kinds, None
<1>3. TypeOK'
  BY <1>0, <1>2, ToolAssumption DEF TypeOK, Decay
<1>4. EntryInv'
  BY <1>0, <1>1, <1>2 DEF EntryInv, Entry, Revision, Sound
<1>5. ASSUME NEW p \in Procs PROVE ProcInv(p)'
  <2>1. ProcInv(p) /\ pc[p] \in Ended
    BY <1>0 DEF IInv, Active
  <2>2. OwnTurn(p)'
    BY <1>0, <2>1 DEF ProcInv, OwnTurn, Ended
  <2>3. Rooted(p)'
    BY <1>0, <2>1 DEF ProcInv, Rooted, Safe, Sound
  <2>4. Undisturbed(p)'
    BY <1>0, <1>2, <2>1 DEF ProcInv, Undisturbed, Ended
  <2> QED BY <2>2, <2>3, <2>4 DEF ProcInv
<1>6. Alone' /\ Owned'
  BY <1>0, <1>2 DEF IInv, Alone, Owned, Active, Ended
<1> QED BY <1>3, <1>4, <1>5, <1>6 DEF IInv

-----------------------------------------------------------------------------
\* The invariant is inductive.
THEOREM NextIInv == IInv /\ [Next]_vars => IInv'
<1> SUFFICES ASSUME IInv, [Next]_vars PROVE IInv'
  OBVIOUS
<1>1. ASSUME NEW p \in Procs, Install(p) PROVE IInv'
  BY <1>1, BeginStep, PurgeStep, FetchSumsStep, OpenSumsStep, SumsArriveStep,
     CheckCachedStep, FetchAssetStep, OpenAssetStep, AssetArrivesStep, VerifyStep, RecordStep, UnpackStep,
     InstallSupportStep, InstallBinaryStep, HealthcheckStep, FailsStep DEF Install
<1>2. CASE UNCHANGED vars
  <2>1. TypeOK' /\ EntryInv' /\ Alone' /\ Owned'
    BY <1>2 DEF IInv, TypeOK, EntryInv, Entry, Revision, Owned, Alone, Active,
                vars, cache, local, history
  <2>2. ASSUME NEW p \in Procs PROVE ProcInv(p)'
    BY <1>2, <2>2 DEF IInv, ProcInv, Rooted, OwnTurn, Undisturbed, Matches, Safe,
                      vars, cache, local, history
  <2> QED BY <2>1, <2>2 DEF IInv
<1> QED BY <1>1, <1>2, RereleaseStep, DecayStep DEF Next

\* The invariant holds of every behaviour, whatever the constants.
THEOREM Invariance == Spec => []IInv
  BY InitIInv, NextIInv, PTL DEF Spec

\* Every variable keeps its type.
THEOREM TypeCorrect == Spec => []TypeOK
<1>1. IInv => TypeOK
  BY DEF IInv
<1> QED BY <1>1, Invariance, PTL

\* No damaged download reaches an install root (install_tool).
THEOREM InstalledWhole == Spec => []InstalledIsWhole
<1>1. IInv => InstalledIsWhole
  BY DEF IInv, ProcInv, Rooted, Safe, Sound, InstalledIsWhole
<1> QED BY <1>1, Invariance, PTL

\* An install of a checked tool that has the entry for itself records and
\* installs what its checksum manifest names, whatever others left in the cache
\* (_prepare_cached_asset).
THEOREM AloneVerified == Spec => []AloneIsVerified
<1>1. IInv => AloneIsVerified
  <2> SUFFICES ASSUME IInv, tool \in Checked, NEW p \in Procs, alone[p]
               PROVE  /\ pc[p] \in {"unpack", "support", "binary", "healthcheck"} =>
                            meta = asset /\ Matches(asset)
                      /\ pc[p] = "healthcheck" => root[p] = [support |-> asset, binary |-> asset]
                      /\ pc[p] = "done" =>
                            root[p].binary.kind = "whole" /\ root[p].support = root[p].binary
    BY DEF AloneIsVerified
  <2>1. OwnTurn(p) /\ root[p] \in [support : Content, binary : Content]
    BY DEF IInv, ProcInv, TypeOK
  <2> QED BY <2>1 DEF OwnTurn
<1> QED BY <1>1, Invariance, PTL

\* An undisturbed attempt succeeds whatever the attempts before it left in the
\* cache (_prepare_cached_asset).
THEOREM UndisturbedWorks == Spec => []UndisturbedSucceeds
<1>1. IInv => UndisturbedSucceeds
  BY DEF IInv, ProcInv, Undisturbed, UndisturbedSucceeds
<1> QED BY <1>1, Invariance, PTL

-----------------------------------------------------------------------------
\* A step leaves the asset of a verified entry, unless it decays, and its metadata.
Keeps ==
    Verified /\ ~overlap' =>
        /\ asset' = asset \/ asset'.kind = "bad"
        /\ meta' = meta \/ meta' = Torn

\* No step of an install touches the asset of a verified entry.
LEMMA InstallKeeps ==
    ASSUME IInv, NEW p \in Procs, Install(p), Verified, ~overlap'
    PROVE  asset' = asset /\ (meta' = meta \/ meta' = Torn)
<1>1. overlap => overlap'
  <2>1. CASE Begin(p)
    BY <2>1 DEF Begin, Joins
  <2>2. CASE ~Begin(p)
    BY <2>2 DEF Install, Purge, FetchSums, OpenSums, SumsArrive, CheckCached, FetchAsset,
                OpenAsset, AssetArrives, Verify, Record, Unpack, InstallSupport, InstallBinary, Healthcheck, Fails, history
  <2> QED BY <2>1, <2>2
<1>2. OwnTurn(p) /\ ~overlap /\ (Active(p) => alone[p])
  BY <1>1 DEF IInv, ProcInv, Alone
<1>3. CASE Purge(p)
  BY <1>2, <1>3 DEF Purge, Verified, OwnTurn, Active, Ended, cache
<1>4. CASE CheckCached(p)
  BY <1>2, <1>4 DEF CheckCached, Verified, OwnTurn, Active, Ended, Stale, Unlink, None
<1>5. CASE OpenAsset(p)
  BY <1>2, <1>5 DEF OpenAsset, Verified, OwnTurn, Active, Ended, None
<1>6. CASE AssetArrives(p)
  BY <1>2, <1>6 DEF AssetArrives, Verified, OwnTurn, Active, Ended
<1>7. CASE Record(p)
  BY <1>2, <1>7 DEF Record, Verified, OwnTurn, Active, Ended
<1>8. CASE Begin(p) \/ FetchSums(p) \/ OpenSums(p) \/ SumsArrive(p) \/ FetchAsset(p) \/ Verify(p)
           \/ Unpack(p) \/ InstallSupport(p) \/ InstallBinary(p) \/ Healthcheck(p) \/ Fails(p)
  BY <1>8 DEF Begin, FetchSums, OpenSums, SumsArrive, FetchAsset, Verify, Unpack,
              InstallSupport, InstallBinary, Healthcheck, Fails, cache
<1> QED BY <1>3, <1>4, <1>5, <1>6, <1>7, <1>8 DEF Install

\* Installs that do not overlap keep a verified asset and its record
\* (_prepare_cached_asset).
THEOREM VerifiedKept == Spec => VerifiedIsKept
<1>1. IInv /\ [Next]_vars => Keeps
  <2> SUFFICES ASSUME IInv, [Next]_vars, Verified, ~overlap'
               PROVE  (asset' = asset \/ asset'.kind = "bad") /\ (meta' = meta \/ meta' = Torn)
    BY DEF Keeps
  <2>1. CASE Rerelease \/ UNCHANGED vars
    BY <2>1 DEF Rerelease, vars, cache
  <2>2. CASE Decay
    BY <2>2 DEF Decay, IInv, TypeOK, Content
  <2> QED BY <2>1, <2>2, InstallKeeps DEF Next
<1>2. VerifiedIsKept <=> [][Keeps]_vars
  BY PTL DEF VerifiedIsKept, Keeps
<1> QED BY <1>1, <1>2, Invariance, PTL DEF Spec
=============================================================================
