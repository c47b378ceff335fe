-------------------------- MODULE SelfUpdateProofs --------------------------
(* The manifest cache answers nothing that was not published, whatever the    *)
(* processes and whichever of them are killed; and when one process at a time *)
(* updates the toolchain, a binary survives every step and no update goes     *)
(* back.  Without that assumption neither holds: nothing in the code keeps a  *)
(* second update from unpacking into the directory that the first takes its   *)
(* binary from.                                                               *)
EXTENDS SelfUpdate, WellFoundedInduction, TLAPS

-----------------------------------------------------------------------------
(* The manifest.                                                              *)

\* A process holds the manifest from the moment it has obtained it.
Holding == {"truncate", "fill", "use"} \cup UpdateSteps

\* What is in the cache file or in a process is an answer of the server.
Published ==
  /\ cache.state = "valid" => cache.manifest \in 1..server /\ cache.saved <= now
  /\ \A p \in Procs : pc[p] \in Holding => held[p] \in 1..server

CacheInvariant == TypeOK /\ Published

\* A cache file is absent, torn or one of the valid ones.
LEMMA CacheCases ==
  ASSUME TypeOK
  PROVE  \/ cache = NoCache /\ cache.state = "none"
         \/ cache = Torn /\ cache.state = "torn"
         \/ /\ cache.state = "valid" /\ cache = Valid(cache.manifest, cache.saved)
            /\ cache.manifest \in 1..MaxReleases /\ cache.saved \in 0..MaxTime
<1>1. cache \in {NoCache, Torn} \cup {Valid(m, t) : m \in 1..MaxReleases, t \in 0..MaxTime}
  BY DEF TypeOK, CacheTypeOK
<1>2. NoCache.state = "none" /\ Torn.state = "torn"
  BY DEF NoCache, Torn
<1>3. ASSUME NEW m \in 1..MaxReleases, NEW t \in 0..MaxTime, cache = Valid(m, t)
      PROVE  cache.state = "valid" /\ cache.manifest = m /\ cache.saved = t
  BY <1>3 DEF Valid
<1>. QED  BY <1>1, <1>2, <1>3

\* What the latest release of a manifest is: one of its releases.
LEMMA LatestExists ==
  ASSUME NEW m \in Nat, NEW S \in SUBSET (1..m), S # {}
  PROVE  latest(S) \in S /\ \A s \in S : s <= latest(S)
<1>1. \E r \in S : \A s \in S : s <= r
  <2>. DEFINE T == {m - s : s \in S}
              R == OpToRel(<, Nat)
  <2>1. \A s \in S : s \in Nat /\ m - s \in Nat
    OBVIOUS
  <2>2. T \subseteq Nat /\ T # {}
    BY <2>1
  <2>3. \E x \in T : \A y \in T : ~(<<y, x>> \in R)
    <3>. HIDE DEF T, R
    <3>1. IsWellFoundedOn(R, Nat)
      BY NatLessThanWellFounded DEF R
    <3>. QED  BY <2>2, <3>1, WFMin
  <2>4. PICK x \in T : \A y \in T : ~(<<y, x>> \in R)
    BY <2>3
  <2>5. \A y \in T : ~(y < x)
    BY <2>2, <2>4 DEF OpToRel
  <2>6. PICK r \in S : x = m - r
    OBVIOUS
  <2>7. ASSUME NEW s \in S
        PROVE  s <= r
    <3>1. ~(m - s < m - r)
      BY <2>5, <2>6
    <3>. QED  BY <3>1
  <2>. QED  BY <2>7
<1>. QED  BY <1>1 DEF latest

\* latest_release picks a release of the manifest.
LEMMA LatestRelease ==
  ASSUME NEW m \in Nat \ {0}
  PROVE  latest_release(m) \in 1..m
<1>1. CASE Stable \cap 1..m = {}
  <2>1. latest_release(m) = latest(1..m)
    BY <1>1 DEF latest_release
  <2>2. 1 \in 1..m
    OBVIOUS
  <2>. QED  BY <2>1, <2>2, LatestExists
<1>2. CASE Stable \cap 1..m # {}
  <2>0. PICK S \in SUBSET (1..m) : S = Stable \cap 1..m
    OBVIOUS
  <2>1. latest_release(m) = latest(S)
    BY <1>2, <2>0 DEF latest_release
  <2>2. latest(S) \in S
    BY <1>2, <2>0, LatestExists
  <2>. QED  BY <2>0, <2>1, <2>2
<1>. QED  BY <1>1, <1>2

Steps == FetchSteps \cup UpdateSteps

\* The parts of the type invariant that a single process moves.
LEMMA Advance ==
  ASSUME TypeOK, NEW p \in Procs, NEW s \in Steps, Goto(p, s)
  PROVE  /\ pc' \in [Procs -> Steps] /\ pc'[p] = s
         /\ \A q \in Procs \ {p} : pc'[q] = pc[q]
  BY DEF TypeOK, Goto, Steps

\* A step of one process that leaves the manifests alone.
LEMMA Moves ==
  ASSUME CacheInvariant, NEW p \in Procs, NEW s \in Steps, Goto(p, s),
         s \in Holding => pc[p] \in Holding,
         UNCHANGED <<server, cache, now, held, age, file, crashes, platform, me>>,
         exe' \in Binary, old' \in Binary, staged' \in [1..MaxReleases -> Binary]
  PROVE  CacheInvariant'
<1>1. TypeOK /\ Published
  BY DEF CacheInvariant
<1>2. /\ pc' \in [Procs -> Steps] /\ pc'[p] = s
      /\ \A q \in Procs \ {p} : pc'[q] = pc[q]
  BY <1>1, Advance
<1>3. TypeOK'
  BY <1>1, <1>2 DEF TypeOK, CacheTypeOK, Steps
<1>4. Published'
  BY <1>1, <1>2 DEF Published
<1>. QED  BY <1>3, <1>4 DEF CacheInvariant

\* A process that returns, or is killed, forgets its manifest.
LEMMA Returns ==
  ASSUME CacheInvariant, NEW p \in Procs, Return(p),
         UNCHANGED <<server, cache, now, file, platform>>, crashes' \in 0..MaxCrashes,
         exe' \in Binary, old' \in Binary, staged' \in [1..MaxReleases -> Binary]
  PROVE  CacheInvariant'
<1>1. TypeOK /\ Published
  BY DEF CacheInvariant
<1>2. "idle" \in Steps /\ "idle" \notin Holding /\ Goto(p, "idle")
  BY DEF Steps, FetchSteps, UpdateSteps, Holding, Return
<1>3. /\ pc' \in [Procs -> Steps] /\ pc'[p] = "idle"
      /\ \A q \in Procs \ {p} : pc'[q] = pc[q]
  BY <1>1, <1>2, Advance
<1>4. /\ held' \in [Procs -> 0..MaxReleases] /\ age' \in [Procs -> 0..MaxTime] /\ me' \in [Procs -> 0..MaxReleases]
      /\ \A q \in Procs \ {p} : held'[q] = held[q]
  BY <1>1, CacheAssumption DEF TypeOK, CacheTypeOK, Return
<1>5. TypeOK'
  BY <1>1, <1>3, <1>4 DEF TypeOK, CacheTypeOK, Steps
<1>6. Published'
  BY <1>1, <1>2, <1>3, <1>4 DEF Published
<1>. QED  BY <1>5, <1>6 DEF CacheInvariant

\* What an update finds.
LEMMA UpdateContext ==
  ASSUME CacheInvariant, NEW p \in Procs, pc[p] \in Holding
  PROVE  /\ exe \in Binary /\ old \in Binary /\ staged \in [1..MaxReleases -> Binary]
         /\ crashes \in 0..MaxCrashes /\ Missing \in Binary /\ Partial \in Binary
         /\ target(p) \in 1..MaxReleases /\ target(p) \in Binary /\ staged[target(p)] \in Binary
<1>1. TypeOK /\ Published
  BY DEF CacheInvariant
<1>2. exe \in Binary /\ old \in Binary /\ staged \in [1..MaxReleases -> Binary] /\ crashes \in 0..MaxCrashes
  BY <1>1 DEF TypeOK, CacheTypeOK
<1>3. Missing \in Binary /\ Partial \in Binary /\ 1..MaxReleases \subseteq Binary
  BY CacheAssumption DEF Binary, Missing, Partial
<1>4. server \in 1..MaxReleases /\ held[p] \in 1..server
  BY <1>1 DEF TypeOK, CacheTypeOK, Published
<1>5. target(p) \in 1..held[p]
  BY <1>4, LatestRelease DEF target
<1>6. target(p) \in 1..MaxReleases
  BY <1>4, <1>5, CacheAssumption
<1>. QED  BY <1>2, <1>3, <1>6

\* The steps of an update leave the cache alone: they go on or return.
UpdateFrame(p) ==
  /\ \/ Return(p)
     \/ /\ pc[p] \in Holding
        /\ \E s \in UpdateSteps : Goto(p, s)
        /\ UNCHANGED <<held, age, me, crashes>>
  /\ UNCHANGED <<server, cache, now, file, platform>>

\* They keep the manifests published.
LEMMA UpdateKeeps ==
  ASSUME CacheInvariant, NEW p \in Procs, UpdateFrame(p), crashes' \in 0..MaxCrashes,
         exe' \in Binary, old' \in Binary, staged' \in [1..MaxReleases -> Binary]
  PROVE  CacheInvariant'
<1>1. CASE Return(p)
  BY <1>1, Returns DEF UpdateFrame
<1>2. CASE ~Return(p)
  <2>1. PICK s \in UpdateSteps : Goto(p, s)
    BY <1>2 DEF UpdateFrame
  <2>2. s \in Steps
    BY DEF Steps
  <2>. QED  BY <1>2, <2>1, <2>2, Moves DEF UpdateFrame
<1>. QED  BY <1>1, <1>2

-----------------------------------------------------------------------------
(* The binary, when at most one process updates it.                           *)

Solo == \A p \in Updaters, q \in Updaters : p = q

\* Steps at which the running binary is still in place.
BeforeMove == (FetchSteps \ {"idle"}) \cup
              {"compare", "download", "stage", "extract", "replace", "rmOld", "moveOut"}

Updating == {"download", "stage", "extract", "replace", "rmOld", "moveOut", "moveIn", "moveBack"}

\* A complete binary of the target is staged.
Staged == {"replace", "rmOld", "moveOut", "moveIn"}

\* An update has left the binary that it runs in place until it moves it, goes
\* on only to a later release, and moves in a complete one.
OwnUpdate(p) ==
  /\ pc[p] \in BeforeMove => exe = me[p] /\ exe # Missing
  /\ pc[p] \in Updating => me[p] < target(p)
  /\ pc[p] \in Staged => staged[target(p)] = target(p)
  /\ pc[p] \in {"rmOld", "moveOut", "moveIn", "moveBack"} => platform = "windows"
  /\ pc[p] \in {"moveIn", "moveBack"} => exe = Missing /\ old = me[p] /\ me[p] # Missing

UpdateInvariant ==
  /\ CacheInvariant
  /\ BinarySurvives
  /\ \A p \in Procs \ Updaters : pc[p] \in FetchSteps
  /\ \A p \in Updaters : OwnUpdate(p)

-----------------------------------------------------------------------------
(* Every step keeps the manifests published.                                  *)

\* UseManifest keeps the manifests published.
LEMMA CacheUseManifest ==
  ASSUME CacheInvariant, NEW p \in Procs, UseManifest(p)
  PROVE  CacheInvariant'
<1>1. pc[p] \in Holding
  BY DEF UseManifest, Holding, UpdateSteps
<1>2. UpdateFrame(p)
  BY <1>1 DEF UseManifest, UpdateFrame, UpdateSteps, FirstReplaceStep
<1>3. exe' \in Binary /\ old' \in Binary /\ staged' \in [1..MaxReleases -> Binary] /\ crashes' \in 0..MaxCrashes
  BY <1>1, UpdateContext DEF UseManifest
<1>. QED  BY <1>2, <1>3, UpdateKeeps

\* CompareVersions keeps the manifests published.
LEMMA CacheCompareVersions ==
  ASSUME CacheInvariant, NEW p \in Procs, CompareVersions(p)
  PROVE  CacheInvariant'
<1>1. pc[p] \in Holding
  BY DEF CompareVersions, Holding, UpdateSteps
<1>2. UpdateFrame(p)
  BY <1>1 DEF CompareVersions, UpdateFrame, UpdateSteps, FirstReplaceStep
<1>3. exe' \in Binary /\ old' \in Binary /\ staged' \in [1..MaxReleases -> Binary] /\ crashes' \in 0..MaxCrashes
  BY <1>1, UpdateContext DEF CompareVersions
<1>. QED  BY <1>2, <1>3, UpdateKeeps

\* Download keeps the manifests published.
LEMMA CacheDownload ==
  ASSUME CacheInvariant, NEW p \in Procs, Download(p)
  PROVE  CacheInvariant'
<1>1. pc[p] \in Holding
  BY DEF Download, Holding, UpdateSteps
<1>2. UpdateFrame(p)
  BY <1>1 DEF Download, UpdateFrame, UpdateSteps, FirstReplaceStep
<1>3. exe' \in Binary /\ old' \in Binary /\ staged' \in [1..MaxReleases -> Binary] /\ crashes' \in 0..MaxCrashes
  BY <1>1, UpdateContext DEF Download
<1>. QED  BY <1>2, <1>3, UpdateKeeps

\* BeginExtract keeps the manifests published.
LEMMA CacheBeginExtract ==
  ASSUME CacheInvariant, NEW p \in Procs, BeginExtract(p)
  PROVE  CacheInvariant'
<1>1. pc[p] \in Holding
  BY DEF BeginExtract, Holding, UpdateSteps
<1>2. UpdateFrame(p)
  BY <1>1 DEF BeginExtract, UpdateFrame, UpdateSteps, FirstReplaceStep
<1>3. exe' \in Binary /\ old' \in Binary /\ staged' \in [1..MaxReleases -> Binary] /\ crashes' \in 0..MaxCrashes
  BY <1>1, UpdateContext DEF BeginExtract
<1>. QED  BY <1>2, <1>3, UpdateKeeps

\* EndExtract keeps the manifests published.
LEMMA CacheEndExtract ==
  ASSUME CacheInvariant, NEW p \in Procs, EndExtract(p)
  PROVE  CacheInvariant'
<1>1. pc[p] \in Holding
  BY DEF EndExtract, Holding, UpdateSteps
<1>2. UpdateFrame(p)
  BY <1>1 DEF EndExtract, UpdateFrame, UpdateSteps, FirstReplaceStep
<1>3. exe' \in Binary /\ old' \in Binary /\ staged' \in [1..MaxReleases -> Binary] /\ crashes' \in 0..MaxCrashes
  BY <1>1, UpdateContext DEF EndExtract
<1>. QED  BY <1>2, <1>3, UpdateKeeps

\* Replace keeps the manifests published.
LEMMA CacheReplace ==
  ASSUME CacheInvariant, NEW p \in Procs, Replace(p)
  PROVE  CacheInvariant'
<1>1. pc[p] \in Holding
  BY DEF Replace, Holding, UpdateSteps
<1>2. UpdateFrame(p)
  BY <1>1 DEF Replace, UpdateFrame, UpdateSteps, FirstReplaceStep
<1>3. exe' \in Binary /\ old' \in Binary /\ staged' \in [1..MaxReleases -> Binary] /\ crashes' \in 0..MaxCrashes
  BY <1>1, UpdateContext DEF Replace
<1>. QED  BY <1>2, <1>3, UpdateKeeps

\* RemoveOld keeps the manifests published.
LEMMA CacheRemoveOld ==
  ASSUME CacheInvariant, NEW p \in Procs, RemoveOld(p)
  PROVE  CacheInvariant'
<1>1. pc[p] \in Holding
  BY DEF RemoveOld, Holding, UpdateSteps
<1>2. UpdateFrame(p)
  BY <1>1 DEF RemoveOld, UpdateFrame, UpdateSteps, FirstReplaceStep
<1>3. exe' \in Binary /\ old' \in Binary /\ staged' \in [1..MaxReleases -> Binary] /\ crashes' \in 0..MaxCrashes
  BY <1>1, UpdateContext DEF RemoveOld
<1>. QED  BY <1>2, <1>3, UpdateKeeps

\* MoveOut keeps the manifests published.
LEMMA CacheMoveOut ==
  ASSUME CacheInvariant, NEW p \in Procs, MoveOut(p)
  PROVE  CacheInvariant'
<1>1. pc[p] \in Holding
  BY DEF MoveOut, Holding, UpdateSteps
<1>2. UpdateFrame(p)
  BY <1>1 DEF MoveOut, UpdateFrame, UpdateSteps, FirstReplaceStep
<1>3. exe' \in Binary /\ old' \in Binary /\ staged' \in [1..MaxReleases -> Binary] /\ crashes' \in 0..MaxCrashes
  BY <1>1, UpdateContext DEF MoveOut
<1>. QED  BY <1>2, <1>3, UpdateKeeps

\* MoveIn keeps the manifests published.
LEMMA CacheMoveIn ==
  ASSUME CacheInvariant, NEW p \in Procs, MoveIn(p)
  PROVE  CacheInvariant'
<1>1. pc[p] \in Holding
  BY DEF MoveIn, Holding, UpdateSteps
<1>2. UpdateFrame(p)
  BY <1>1 DEF MoveIn, UpdateFrame, UpdateSteps, FirstReplaceStep
<1>3. exe' \in Binary /\ old' \in Binary /\ staged' \in [1..MaxReleases -> Binary] /\ crashes' \in 0..MaxCrashes
  BY <1>1, UpdateContext DEF MoveIn
<1>. QED  BY <1>2, <1>3, UpdateKeeps

\* MoveBack keeps the manifests published.
LEMMA CacheMoveBack ==
  ASSUME CacheInvariant, NEW p \in Procs, MoveBack(p)
  PROVE  CacheInvariant'
<1>1. pc[p] \in Holding
  BY DEF MoveBack, Holding, UpdateSteps
<1>2. UpdateFrame(p)
  BY <1>1 DEF MoveBack, UpdateFrame, UpdateSteps, FirstReplaceStep
<1>3. exe' \in Binary /\ old' \in Binary /\ staged' \in [1..MaxReleases -> Binary] /\ crashes' \in 0..MaxCrashes
  BY <1>1, UpdateContext DEF MoveBack
<1>. QED  BY <1>2, <1>3, UpdateKeeps

\* Cleanup keeps the manifests published.
LEMMA CacheCleanup ==
  ASSUME CacheInvariant, NEW p \in Procs, Cleanup(p)
  PROVE  CacheInvariant'
<1>1. pc[p] \in Holding
  BY DEF Cleanup, Holding, UpdateSteps
<1>2. UpdateFrame(p)
  BY <1>1 DEF Cleanup, UpdateFrame, UpdateSteps, FirstReplaceStep
<1>3. exe' \in Binary /\ old' \in Binary /\ staged' \in [1..MaxReleases -> Binary] /\ crashes' \in 0..MaxCrashes
  BY <1>1, UpdateContext DEF Cleanup
<1>. QED  BY <1>2, <1>3, UpdateKeeps

\* A killed process leaves the files.
LEMMA CacheCrash ==
  ASSUME CacheInvariant, NEW p \in Procs, Crash(p)
  PROVE  CacheInvariant'
<1>1. UpdateFrame(p)
  BY DEF Crash, UpdateFrame
<1>2. exe' \in Binary /\ old' \in Binary /\ staged' \in [1..MaxReleases -> Binary]
  BY DEF Crash, CacheInvariant, TypeOK
<1>3. crashes' \in 0..MaxCrashes
  BY CacheAssumption DEF Crash, CacheInvariant, TypeOK, CacheTypeOK
<1>. QED  BY <1>1, <1>2, <1>3, UpdateKeeps

\* Read keeps the manifests published.
LEMMA CacheRead ==
  ASSUME CacheInvariant, NEW p \in Procs, Read(p)
  PROVE  CacheInvariant'
<1>1. "load" \in Steps /\ "load" \notin Holding
  BY DEF Steps, FetchSteps, UpdateSteps, Holding
<1>2. Goto(p, "load") /\ UNCHANGED <<server, cache, now, held, age, file, crashes, platform, exe, old, staged, me>>
  BY DEF Read, BeginFetch, updateVars
<1>3. exe' \in Binary /\ old' \in Binary /\ staged' \in [1..MaxReleases -> Binary]
  BY <1>2 DEF CacheInvariant, TypeOK
<1>. QED  BY <1>1, <1>2, <1>3, Moves

\* BeginUpdate keeps the manifests published.
LEMMA CacheBeginUpdate ==
  ASSUME CacheInvariant, NEW p \in Procs, BeginUpdate(p)
  PROVE  CacheInvariant'
<1>1. TypeOK /\ Published
  BY DEF CacheInvariant
<1>2. "load" \in Steps /\ "load" \notin Holding /\ Goto(p, "load")
  BY DEF Steps, FetchSteps, UpdateSteps, Holding, BeginUpdate, BeginFetch
<1>3. /\ pc' \in [Procs -> Steps] /\ pc'[p] = "load"
      /\ \A q \in Procs \ {p} : pc'[q] = pc[q]
  BY <1>1, <1>2, Advance
<1>4. me' \in [Procs -> 0..MaxReleases]
  BY <1>1, CacheAssumption DEF BeginUpdate, TypeOK
<1>5. TypeOK'
  BY <1>1, <1>3, <1>4 DEF BeginUpdate, BeginFetch, TypeOK, CacheTypeOK, Steps
<1>6. Published'
  BY <1>1, <1>2, <1>3 DEF Published, BeginUpdate, BeginFetch
<1>. QED  BY <1>5, <1>6 DEF CacheInvariant

CacheFiles == {NoCache, Torn} \cup {Valid(m, t) : m \in 1..MaxReleases, t \in 0..MaxTime}

\* What a fetch finds.
LEMMA FetchContext ==
  ASSUME TypeOK
  PROVE  /\ cache \in CacheFiles /\ NoCache \in CacheFiles /\ Torn \in CacheFiles
         /\ \A m \in 1..MaxReleases, t \in 0..MaxTime : Valid(m, t) \in CacheFiles
         /\ held \in [Procs -> 0..MaxReleases] /\ age \in [Procs -> 0..MaxTime]
         /\ file \in [Procs -> {"own", "dirty", "unlinked"}]
  BY DEF CacheFiles, TypeOK, CacheTypeOK

\* The steps of a fetch: the parts of the type invariant they leave alone.
LEMMA FetchTypes ==
  ASSUME TypeOK, NEW p \in Procs, NEW s \in Steps, Goto(p, s), UNCHANGED <<server, now, crashes>>, UNCHANGED updateVars,
         cache' \in CacheFiles, held' \in [Procs -> 0..MaxReleases], age' \in [Procs -> 0..MaxTime],
         file' \in [Procs -> {"own", "dirty", "unlinked"}]
  PROVE  TypeOK'
<1>1. pc' \in [Procs -> Steps]
  BY Advance
<1>. QED  BY <1>1 DEF TypeOK, CacheTypeOK, Steps, updateVars, CacheFiles

\* Obtaining a published manifest.
LEMMA Obtained ==
  ASSUME CacheInvariant, NEW p \in Procs, NEW m \in 1..server, NEW d \in 0..MaxTime, Obtain(p, m, d)
  PROVE  /\ held' \in [Procs -> 0..MaxReleases] /\ age' \in [Procs -> 0..MaxTime]
         /\ held'[p] \in 1..server /\ \A q \in Procs \ {p} : held'[q] = held[q]
<1>1. /\ held \in [Procs -> 0..MaxReleases] /\ age \in [Procs -> 0..MaxTime] /\ server \in 1..MaxReleases
  BY DEF CacheInvariant, TypeOK, CacheTypeOK
<1>2. m \in 0..MaxReleases
  BY <1>1, CacheAssumption
<1>. QED  BY <1>1, <1>2 DEF Obtain

\* LoadFromCache keeps the manifests published.
LEMMA CacheLoadFromCache ==
  ASSUME CacheInvariant, NEW p \in Procs, LoadFromCache(p), UNCHANGED updateVars
  PROVE  CacheInvariant'
<1>1. TypeOK /\ Published
  BY DEF CacheInvariant
<1>2. {"use", "discard", "network"} \subseteq Steps
  BY DEF Steps, FetchSteps
<1>3. UNCHANGED <<server, cache, now, file, crashes>>
  BY DEF LoadFromCache
<1>4. CASE cache.state = "valid" /\ Obtain(p, cache.manifest, now - cache.saved) /\ Goto(p, "use")
  <2>1. cache.manifest \in 1..server /\ now - cache.saved \in 0..MaxTime
    BY <1>1, <1>4, CacheCases, CacheAssumption DEF Published, TypeOK, CacheTypeOK, NoCache, Torn
  <2>2. /\ held' \in [Procs -> 0..MaxReleases] /\ age' \in [Procs -> 0..MaxTime]
        /\ held'[p] \in 1..server /\ \A q \in Procs \ {p} : held'[q] = held[q]
    BY <1>4, <2>1, Obtained
  <2>3. TypeOK'
    BY <1>1, <1>2, <1>3, <1>4, <2>2, FetchTypes, FetchContext
  <2>4. Published'
    <3>1. \A q \in Procs \ {p} : pc'[q] = pc[q]
      BY <1>1, <1>2, <1>4, Advance
    <3>. QED  BY <1>1, <1>3, <2>2, <3>1 DEF Published
  <2>. QED  BY <2>3, <2>4 DEF CacheInvariant
<1>5. ASSUME NEW s \in {"discard", "network"}, Goto(p, s), UNCHANGED <<held, age>>
      PROVE  CacheInvariant'
  <2>1. s \in Steps /\ s \notin Holding
    BY DEF Steps, FetchSteps, Holding, UpdateSteps
  <2>2. exe' \in Binary /\ old' \in Binary /\ staged' \in [1..MaxReleases -> Binary]
    BY <1>1 DEF TypeOK, updateVars
  <2>. QED  BY <1>3, <1>5, <2>1, <2>2, Moves DEF updateVars
<1>. QED  BY <1>4, <1>5 DEF LoadFromCache

\* DiscardCache keeps the manifests published.
LEMMA CacheDiscardCache ==
  ASSUME CacheInvariant, NEW p \in Procs, DiscardCache(p), UNCHANGED updateVars
  PROVE  CacheInvariant'
<1>1. TypeOK /\ Published
  BY DEF CacheInvariant
<1>2. "network" \in Steps /\ "network" \notin Holding /\ Goto(p, "network") /\ UNCHANGED <<server, now, held, age, crashes>>
  BY DEF Steps, FetchSteps, Holding, UpdateSteps, DiscardCache
<1>3. cache' = NoCache /\ NoCache.state = "none" /\ file' \in [Procs -> {"own", "dirty", "unlinked"}]
  BY <1>1 DEF DiscardCache, NoCache, TypeOK, CacheTypeOK
<1>4. TypeOK'
  BY <1>1, <1>2, <1>3, FetchTypes, FetchContext
<1>5. Published'
  <2>1. pc'[p] = "network" /\ \A q \in Procs \ {p} : pc'[q] = pc[q]
    BY <1>1, <1>2, Advance
  <2>. QED  BY <1>1, <1>2, <1>3, <2>1 DEF Published
<1>. QED  BY <1>4, <1>5 DEF CacheInvariant

\* FetchFromNetwork keeps the manifests published.
LEMMA CacheFetchFromNetwork ==
  ASSUME CacheInvariant, NEW p \in Procs, FetchFromNetwork(p), UNCHANGED updateVars
  PROVE  CacheInvariant'
<1>1. TypeOK /\ Published
  BY DEF CacheInvariant
<1>2. {"truncate", "idle"} \subseteq Steps /\ "idle" \notin Holding
  BY DEF Steps, FetchSteps, Holding, UpdateSteps
<1>3. UNCHANGED <<server, cache, now, file, crashes>>
  BY DEF FetchFromNetwork
<1>4. CASE Obtain(p, server, 0) /\ Goto(p, "truncate")
  <2>1. server \in 1..server /\ 0 \in 0..MaxTime
    BY <1>1, CacheAssumption DEF TypeOK, CacheTypeOK
  <2>2. /\ held' \in [Procs -> 0..MaxReleases] /\ age' \in [Procs -> 0..MaxTime]
        /\ held'[p] \in 1..server /\ \A q \in Procs \ {p} : held'[q] = held[q]
    BY <1>4, <2>1, Obtained
  <2>3. TypeOK'
    BY <1>1, <1>2, <1>3, <1>4, <2>2, FetchTypes, FetchContext
  <2>4. Published'
    <3>1. \A q \in Procs \ {p} : pc'[q] = pc[q]
      BY <1>1, <1>2, <1>4, Advance
    <3>. QED  BY <1>1, <1>3, <2>2, <3>1 DEF Published
  <2>. QED  BY <2>3, <2>4 DEF CacheInvariant
<1>5. CASE Goto(p, "idle") /\ UNCHANGED <<held, age>>
  <2>1. exe' \in Binary /\ old' \in Binary /\ staged' \in [1..MaxReleases -> Binary]
    BY <1>1 DEF TypeOK, updateVars
  <2>. QED  BY <1>2, <1>3, <1>5, <2>1, Moves DEF updateVars
<1>. QED  BY <1>4, <1>5 DEF FetchFromNetwork

\* TruncateCache keeps the manifests published.
LEMMA CacheTruncateCache ==
  ASSUME CacheInvariant, NEW p \in Procs, TruncateCache(p), UNCHANGED updateVars
  PROVE  CacheInvariant'
<1>1. TypeOK /\ Published
  BY DEF CacheInvariant
<1>2. {"fill", "use"} \subseteq Steps /\ pc[p] \in Holding /\ UNCHANGED <<server, now, held, age, crashes>>
  BY DEF Steps, FetchSteps, Holding, TruncateCache
<1>3. PICK s \in {"fill", "use"} : Goto(p, s)
  BY DEF TruncateCache
<1>4. cache' \in {cache, Torn} /\ Torn.state = "torn" /\ file' \in [Procs -> {"own", "dirty", "unlinked"}]
  <2>1. file \in [Procs -> {"own", "dirty", "unlinked"}]
    BY <1>1, FetchContext
  <2>2. cache' \in {cache, Torn} /\ (file' = file \/ file' = [file EXCEPT ![p] = "own"])
    BY DEF TruncateCache
  <2>3. Torn.state = "torn"
    BY DEF Torn
  <2>. QED  BY <2>1, <2>2, <2>3
<1>5. TypeOK'
  BY <1>1, <1>2, <1>3, <1>4, FetchTypes, FetchContext
<1>6. Published'
  <2>1. \A q \in Procs \ {p} : pc'[q] = pc[q]
    BY <1>1, <1>2, <1>3, Advance
  <2>. QED  BY <1>1, <1>2, <1>4, <2>1 DEF Published
<1>. QED  BY <1>5, <1>6 DEF CacheInvariant

\* FillCache keeps the manifests published.
LEMMA CacheFillCache ==
  ASSUME CacheInvariant, NEW p \in Procs, FillCache(p), UNCHANGED updateVars
  PROVE  CacheInvariant'
<1>1. TypeOK /\ Published
  BY DEF CacheInvariant
<1>2. "use" \in Steps /\ pc[p] \in Holding /\ Goto(p, "use") /\ UNCHANGED <<server, now, held, age, crashes>>
  BY DEF Steps, FetchSteps, Holding, FillCache
<1>3. held[p] \in 1..server /\ server \in 1..MaxReleases /\ now \in 0..MaxTime
  BY <1>1, <1>2 DEF Published, TypeOK, CacheTypeOK
<1>4. cache' \in {cache, Torn, Valid(held[p], now)} /\ file' \in [Procs -> {"own", "dirty", "unlinked"}]
  BY <1>1 DEF FillCache, TypeOK, CacheTypeOK
<1>5. held[p] \in 1..MaxReleases
  BY <1>3, CacheAssumption
<1>6. TypeOK'
  BY <1>1, <1>2, <1>3, <1>4, <1>5, FetchTypes, FetchContext
<1>7. Published'
  <2>1. \A q \in Procs \ {p} : pc'[q] = pc[q]
    BY <1>1, <1>2, Advance
  <2>2. cache'.state = "valid" => cache'.manifest \in 1..server /\ cache'.saved <= now
    BY <1>1, <1>3, <1>4 DEF Published, Torn, Valid
  <2>. QED  BY <1>1, <1>2, <2>1, <2>2 DEF Published
<1>. QED  BY <1>6, <1>7 DEF CacheInvariant

\* Environment keeps the manifests published.
LEMMA CacheEnvironment ==
  ASSUME CacheInvariant, Environment
  PROVE  CacheInvariant'
<1>1. TypeOK /\ Published
  BY DEF CacheInvariant
<1>2. TypeOK'
  BY <1>1, CacheAssumption DEF Environment, Tick, Publish, TypeOK, CacheTypeOK, updateVars
<1>3. server \in Nat /\ now \in Nat /\ server' \in Nat /\ now' \in Nat /\ server <= server' /\ now <= now'
  BY <1>1, CacheAssumption DEF Environment, Tick, Publish, TypeOK, CacheTypeOK
<1>4. cache' = cache /\ pc' = pc /\ held' = held
  BY DEF Environment, Tick, Publish
<1>5. \A m \in 1..server : m \in 1..server'
  BY <1>3
<1>6. cache.state = "valid" => cache.saved <= now'
  <2>1. ASSUME cache.state = "valid"
        PROVE  cache.saved \in Nat /\ cache.saved <= now
    BY <1>1, <2>1, CacheCases DEF Published, NoCache, Torn
  <2>. QED  BY <1>3, <2>1
<1>. QED  BY <1>1, <1>2, <1>4, <1>5, <1>6 DEF CacheInvariant, Published

\* Nothing is cached or held at first.
LEMMA CacheInvariantInit == Init => CacheInvariant
<1>. SUFFICES ASSUME Init PROVE CacheInvariant
  OBVIOUS
<1>1. TypeOK
  BY CacheAssumption, UpdateAssumption DEF Init, CacheInit, TypeOK, CacheTypeOK, FetchSteps, Binary, Missing, Partial
<1>2. Published
  BY DEF Init, CacheInit, Published, Holding, UpdateSteps, NoCache
<1>. QED  BY <1>1, <1>2 DEF CacheInvariant

\* Every step keeps the manifests published.
LEMMA CacheInvariantNext == CacheInvariant /\ [Next]_vars => CacheInvariant'
<1>. SUFFICES ASSUME CacheInvariant, [Next]_vars PROVE CacheInvariant'
  OBVIOUS
<1>1. CASE UNCHANGED vars
  BY <1>1 DEF vars, cacheVars, updateVars, CacheInvariant, TypeOK, CacheTypeOK, Published
<1>2. CASE Environment
  BY <1>2, CacheEnvironment
<1>3. ASSUME NEW p \in Procs, Read(p) \/ BeginUpdate(p) \/ Crash(p)
      PROVE  CacheInvariant'
  BY <1>3, CacheRead, CacheBeginUpdate, CacheCrash
<1>4. ASSUME NEW p \in Procs, Fetch(p)
      PROVE  CacheInvariant'
  BY <1>4, CacheLoadFromCache, CacheDiscardCache, CacheFetchFromNetwork, CacheTruncateCache, CacheFillCache
     DEF Fetch, FetchStep
<1>5. ASSUME NEW p \in Procs, Step(p)
      PROVE  CacheInvariant'
  BY <1>4, <1>5, CacheUseManifest, CacheCompareVersions, CacheDownload, CacheBeginExtract, CacheEndExtract,
     CacheReplace, CacheRemoveOld, CacheMoveOut, CacheMoveIn, CacheMoveBack, CacheCleanup
     DEF Step
<1>. QED  BY <1>1, <1>2, <1>3, <1>5 DEF Next

\* No caller is ever answered with a manifest that was not published
\* (load_from_cache, save_to_cache), whoever writes the file and is killed.
THEOREM AnswersArePublishedHolds == Spec => []AnswersArePublished
<1>1. CacheInvariant => AnswersArePublished
  BY DEF CacheInvariant, Published, AnswersArePublished, Holding
<1>. QED  BY <1>1, CacheInvariantInit, CacheInvariantNext, PTL DEF Spec

-----------------------------------------------------------------------------
(* A lone update keeps a binary and goes forward.                             *)

\* A step of a process that does not update.
LEMMA OtherStep ==
  ASSUME UpdateInvariant, CacheInvariant', NEW p \in Procs \ Updaters, pc'[p] \in FetchSteps,
         \A q \in Procs \ {p} : pc'[q] = pc[q] /\ held'[q] = held[q] /\ me'[q] = me[q],
         UNCHANGED <<exe, old, staged, platform>>
  PROVE  UpdateInvariant' /\ Installed' = Installed
<1>1. ASSUME NEW q \in Updaters
      PROVE  OwnUpdate(q)'
  <2>1. pc'[q] = pc[q] /\ held'[q] = held[q] /\ me'[q] = me[q]
    BY UpdateAssumption
  <2>2. target(q)' = target(q)
    BY <2>1 DEF target
  <2>3. OwnUpdate(q)
    BY DEF UpdateInvariant
  <2>. QED  BY <2>1, <2>2, <2>3 DEF OwnUpdate
<1>2. \A q \in Procs \ Updaters : pc'[q] \in FetchSteps
  BY DEF UpdateInvariant
<1>3. BinarySurvives' /\ Installed' = Installed
  BY DEF UpdateInvariant, BinarySurvives, Installed
<1>. QED  BY <1>1, <1>2, <1>3 DEF UpdateInvariant

\* A step of the process that updates.
LEMMA OwnStep ==
  ASSUME Solo, UpdateInvariant, CacheInvariant', NEW p \in Updaters,
         \A q \in Procs \ {p} : pc'[q] = pc[q],
         BinarySurvives', OwnUpdate(p)'
  PROVE  UpdateInvariant'
<1>1. \A q \in Updaters : q = p
  BY DEF Solo
<1>2. \A q \in Procs \ Updaters : pc'[q] \in FetchSteps
  BY DEF UpdateInvariant
<1>. QED  BY <1>1, <1>2 DEF UpdateInvariant

\* A process moves nobody else.
LEMMA GotoIsLocal ==
  ASSUME CacheInvariant, NEW p \in Procs, NEW s, Goto(p, s)
  PROVE  pc'[p] = s /\ \A q \in Procs \ {p} : pc'[q] = pc[q]
  BY DEF CacheInvariant, TypeOK, Goto

\* A process that returns moves nobody else.
LEMMA ReturnIsLocal ==
  ASSUME CacheInvariant, NEW p \in Procs, Return(p)
  PROVE  /\ pc'[p] = "idle"
         /\ \A q \in Procs \ {p} : pc'[q] = pc[q] /\ held'[q] = held[q] /\ me'[q] = me[q]
  BY DEF CacheInvariant, TypeOK, CacheTypeOK, Goto, Return

\* A process that returns, or is killed, with the binaries as they are.
LEMMA ReturnStep ==
  ASSUME Solo, UpdateInvariant, CacheInvariant', NEW p \in Procs, Return(p),
         UNCHANGED <<exe, platform>>, old' = old \/ exe # Missing
  PROVE  p \in Updaters \/ UNCHANGED <<old, staged>> => UpdateInvariant' /\ Installed' = Installed
<1>0. CacheInvariant
  BY DEF UpdateInvariant
<1>1. /\ pc'[p] = "idle"
      /\ \A q \in Procs \ {p} : pc'[q] = pc[q] /\ held'[q] = held[q] /\ me'[q] = me[q]
  BY <1>0, ReturnIsLocal
<1>2. CASE p \notin Updaters /\ UNCHANGED <<old, staged>>
  BY <1>1, <1>2, OtherStep DEF FetchSteps
<1>3. CASE p \in Updaters
  <2>1. OwnUpdate(p)'
    BY <1>1 DEF OwnUpdate, BeforeMove, Updating, Staged, FetchSteps
  <2>2. BinarySurvives' /\ Installed' = Installed
    BY DEF UpdateInvariant, BinarySurvives, Installed
  <2>. QED  BY <1>1, <1>3, <2>1, <2>2, OwnStep
<1>. QED  BY <1>2, <1>3

\* A step of the update that leaves the binaries in place.
LEMMA InPlaceStep ==
  ASSUME Solo, UpdateInvariant, CacheInvariant', NEW p \in Updaters, NEW s, Goto(p, s),
         pc[p] \in BeforeMove, s \in BeforeMove,
         UNCHANGED <<exe, platform, me>>,
         s \in Updating => held' = held /\ me[p] < target(p),
         s \in Staged => staged'[target(p)] = target(p),
         s \in {"rmOld", "moveOut"} => platform = "windows"
  PROVE  UpdateInvariant' /\ Installed' = Installed
<1>0. CacheInvariant /\ OwnUpdate(p) /\ p \in Procs
  BY UpdateAssumption DEF UpdateInvariant
<1>1. pc'[p] = s /\ \A q \in Procs \ {p} : pc'[q] = pc[q]
  BY <1>0, GotoIsLocal
<1>2. exe = me[p] /\ exe # Missing
  BY <1>0 DEF OwnUpdate
<1>3. s \in Staged => s \in Updating
  BY DEF Staged, Updating
<1>4. held' = held => target(p)' = target(p)
  BY DEF target
<1>5. s \notin {"moveIn", "moveBack"}
  BY DEF BeforeMove, FetchSteps
<1>6. OwnUpdate(p)'
  BY <1>1, <1>2, <1>3, <1>4, <1>5 DEF OwnUpdate
<1>7. BinarySurvives' /\ Installed' = Installed
  BY <1>2 DEF UpdateInvariant, BinarySurvives, Installed
<1>. QED  BY <1>0, <1>1, <1>6, <1>7, OwnStep

\* The installed binary is a release.
LEMMA InstalledIsNat ==
  ASSUME UpdateInvariant
  PROVE  Installed \in 1..MaxReleases /\ (Installed \in Nat) /\ Installed >= Installed
<1>1. Installed \in 1..MaxReleases
  BY CacheAssumption DEF UpdateInvariant, BinarySurvives, Installed, Missing
<1>. QED  BY <1>1, CacheAssumption

Forward == UpdateInvariant' /\ Installed' >= Installed

\* A step that does not move the installed binary goes forward.
LEMMA StaysForward ==
  ASSUME UpdateInvariant, UpdateInvariant' /\ Installed' = Installed
  PROVE  Forward
  BY InstalledIsNat DEF Forward

\* What holds when a process of an update takes a step.
LEMMA OwnContext ==
  ASSUME UpdateInvariant, NEW p \in Procs, pc[p] \in UpdateSteps
  PROVE  p \in Updaters /\ OwnUpdate(p) /\ CacheInvariant
         /\ target(p) \in 1..MaxReleases /\ staged \in [1..MaxReleases -> Binary]
<1>1. p \in Updaters
  BY DEF UpdateInvariant, FetchSteps, UpdateSteps
<1>2. pc[p] \in Holding
  BY DEF Holding
<1>. QED  BY <1>1, <1>2, UpdateContext DEF UpdateInvariant

\* Read keeps a binary and goes forward.
LEMMA ReadForward ==
  ASSUME Solo, UpdateInvariant, NEW p \in Procs, Read(p)
  PROVE  Forward
<1>1. CacheInvariant /\ CacheInvariant'
  BY CacheRead DEF UpdateInvariant
<1>2. p \in Procs \ Updaters /\ Goto(p, "load") /\ UNCHANGED <<held, me, exe, old, staged, platform>> /\ "load" \in FetchSteps
  BY DEF Read, BeginFetch, updateVars, FetchSteps
<1>3. pc'[p] = "load" /\ \A q \in Procs \ {p} : pc'[q] = pc[q]
  BY <1>1, <1>2, GotoIsLocal
<1>. QED  BY <1>1, <1>2, <1>3, OtherStep, StaysForward

\* BeginUpdate keeps a binary and goes forward.
LEMMA BeginUpdateForward ==
  ASSUME Solo, UpdateInvariant, NEW p \in Procs, BeginUpdate(p)
  PROVE  Forward
<1>1. CacheInvariant /\ CacheInvariant'
  BY CacheBeginUpdate DEF UpdateInvariant
<1>2. p \in Updaters /\ Goto(p, "load") /\ UNCHANGED <<exe, old, staged, platform>> /\ exe \in 1..MaxReleases
      /\ me' = [me EXCEPT ![p] = exe]
  BY DEF BeginUpdate, BeginFetch
<1>3. pc'[p] = "load" /\ \A q \in Procs \ {p} : pc'[q] = pc[q]
  BY <1>1, <1>2, GotoIsLocal
<1>4. me'[p] = exe /\ exe # Missing
  BY <1>1, <1>2, CacheAssumption DEF CacheInvariant, TypeOK, Missing
<1>5. OwnUpdate(p)'
  BY <1>2, <1>3, <1>4 DEF OwnUpdate, Updating, Staged
<1>6. BinarySurvives' /\ Installed' = Installed
  BY <1>2 DEF UpdateInvariant, BinarySurvives, Installed
<1>. QED  BY <1>1, <1>2, <1>3, <1>5, <1>6, OwnStep, StaysForward

\* Fetch keeps a binary and goes forward.
LEMMA FetchForward ==
  ASSUME Solo, UpdateInvariant, NEW p \in Procs, Fetch(p)
  PROVE  Forward
<1>1. CacheInvariant /\ CacheInvariant'
  BY CacheLoadFromCache, CacheDiscardCache, CacheFetchFromNetwork, CacheTruncateCache, CacheFillCache
     DEF UpdateInvariant, Fetch, FetchStep
<1>2. PICK s \in FetchSteps : Goto(p, s)
  BY DEF Fetch, FetchStep, LoadFromCache, DiscardCache, FetchFromNetwork, TruncateCache, FillCache, FetchSteps
<1>3. UNCHANGED <<exe, old, staged, platform, me>>
  BY DEF Fetch, updateVars
<1>4. held \in [Procs -> 0..MaxReleases] /\ \A q \in Procs \ {p} : held'[q] = held[q]
  <2>1. held \in [Procs -> 0..MaxReleases]
    BY <1>1 DEF CacheInvariant, TypeOK, CacheTypeOK
  <2>. QED  BY <2>1 DEF Fetch, FetchStep, LoadFromCache, DiscardCache, FetchFromNetwork, TruncateCache, FillCache, Obtain
<1>5. pc'[p] = s /\ \A q \in Procs \ {p} : pc'[q] = pc[q]
  BY <1>1, <1>2, GotoIsLocal
<1>6. pc[p] \in BeforeMove
  BY DEF Fetch, FetchStep, LoadFromCache, DiscardCache, FetchFromNetwork, TruncateCache, FillCache, BeforeMove, FetchSteps
<1>7. CASE p \notin Updaters
  BY <1>1, <1>3, <1>4, <1>5, <1>7, OtherStep, StaysForward
<1>8. CASE p \in Updaters /\ s # "idle"
  <2>1. s \in BeforeMove /\ s \notin Updating /\ s \notin Staged /\ s \notin {"rmOld", "moveOut"}
    BY <1>8 DEF BeforeMove, FetchSteps, Updating, Staged
  <2>. QED  BY <1>1, <1>2, <1>3, <1>6, <1>8, <2>1, InPlaceStep, StaysForward
<1>9. CASE p \in Updaters /\ s = "idle"
  <2>1. OwnUpdate(p)'
    BY <1>5, <1>9 DEF OwnUpdate, BeforeMove, Updating, Staged, FetchSteps
  <2>2. BinarySurvives' /\ Installed' = Installed
    BY <1>3 DEF UpdateInvariant, BinarySurvives, Installed
  <2>. QED  BY <1>1, <1>5, <1>9, <2>1, <2>2, OwnStep, StaysForward
<1>. QED  BY <1>7, <1>8, <1>9

\* UseManifest keeps a binary and goes forward.
LEMMA UseManifestForward ==
  ASSUME Solo, UpdateInvariant, NEW p \in Procs, UseManifest(p)
  PROVE  Forward
<1>1. CacheInvariant'
  BY CacheUseManifest DEF UpdateInvariant
<1>2. pc[p] = "use" /\ UNCHANGED <<platform, exe, old, staged>>
  BY DEF UseManifest
<1>3. CASE p \notin Updaters /\ Return(p)
  BY <1>1, <1>2, <1>3, ReturnStep, StaysForward
<1>4. CASE p \in Updaters /\ Goto(p, "compare") /\ UNCHANGED <<held, age, me>>
  <2>1. pc[p] \in BeforeMove /\ "compare" \in BeforeMove /\ "compare" \notin Updating \cup Staged
    BY <1>2 DEF BeforeMove, FetchSteps, Updating, Staged
  <2>. QED  BY <1>1, <1>2, <1>4, <2>1, InPlaceStep, StaysForward
<1>. QED  BY <1>3, <1>4 DEF UseManifest

\* Compare keeps a binary and goes forward.
LEMMA CompareForward ==
  ASSUME Solo, UpdateInvariant, NEW p \in Procs, CompareVersions(p)
  PROVE  Forward
<1>1. CacheInvariant'
  BY CacheCompareVersions DEF UpdateInvariant
<1>2. pc[p] = "compare" /\ UNCHANGED <<platform, exe, old, staged>>
  BY DEF CompareVersions
<1>3. p \in Updaters
  BY <1>2, OwnContext DEF UpdateSteps
<1>4. CASE Return(p)
  BY <1>1, <1>2, <1>3, <1>4, ReturnStep, StaysForward
<1>5. CASE me[p] < target(p) /\ Goto(p, "download") /\ UNCHANGED <<held, age, me>>
  <2>1. pc[p] \in BeforeMove /\ "download" \in BeforeMove /\ "download" \notin Staged
    BY <1>2 DEF BeforeMove, Staged
  <2>. QED  BY <1>1, <1>2, <1>3, <1>5, <2>1, InPlaceStep, StaysForward
<1>. QED  BY <1>4, <1>5 DEF CompareVersions

\* Download keeps a binary and goes forward.
LEMMA DownloadForward ==
  ASSUME Solo, UpdateInvariant, NEW p \in Procs, Download(p)
  PROVE  Forward
<1>1. CacheInvariant'
  BY CacheDownload DEF UpdateInvariant
<1>2. pc[p] = "download" /\ UNCHANGED <<platform, exe, old, staged>>
  BY DEF Download
<1>3. p \in Updaters /\ OwnUpdate(p)
  BY <1>2, OwnContext DEF UpdateSteps
<1>4. CASE Return(p)
  BY <1>1, <1>2, <1>3, <1>4, ReturnStep, StaysForward
<1>5. CASE Goto(p, "stage") /\ UNCHANGED <<held, age, me>>
  <2>1. pc[p] \in BeforeMove /\ "stage" \in BeforeMove /\ "stage" \notin Staged /\ pc[p] \in Updating
    BY <1>2 DEF BeforeMove, Staged, Updating
  <2>2. me[p] < target(p)
    BY <1>3, <2>1 DEF OwnUpdate
  <2>. QED  BY <1>1, <1>2, <1>3, <1>5, <2>1, <2>2, InPlaceStep, StaysForward
<1>. QED  BY <1>4, <1>5 DEF Download

\* BeginExtract keeps a binary and goes forward.
LEMMA BeginExtractForward ==
  ASSUME Solo, UpdateInvariant, NEW p \in Procs, BeginExtract(p)
  PROVE  Forward
<1>1. CacheInvariant'
  BY CacheBeginExtract DEF UpdateInvariant
<1>2. pc[p] = "stage" /\ UNCHANGED <<platform, exe, old, held, me>> /\ Goto(p, "extract")
  BY DEF BeginExtract
<1>3. p \in Updaters /\ OwnUpdate(p)
  BY <1>2, OwnContext DEF UpdateSteps
<1>4. pc[p] \in BeforeMove /\ "extract" \in BeforeMove /\ "extract" \notin Staged /\ pc[p] \in Updating
  BY <1>2 DEF BeforeMove, Staged, Updating
<1>5. me[p] < target(p)
  BY <1>3, <1>4 DEF OwnUpdate
<1>. QED  BY <1>1, <1>2, <1>3, <1>4, <1>5, InPlaceStep, StaysForward

\* EndExtract keeps a binary and goes forward.
LEMMA EndExtractForward ==
  ASSUME Solo, UpdateInvariant, NEW p \in Procs, EndExtract(p)
  PROVE  Forward
<1>1. CacheInvariant'
  BY CacheEndExtract DEF UpdateInvariant
<1>2. pc[p] = "extract" /\ UNCHANGED <<platform, exe, old>>
  BY DEF EndExtract
<1>3. p \in Updaters /\ OwnUpdate(p) /\ target(p) \in 1..MaxReleases /\ staged \in [1..MaxReleases -> Binary]
      /\ CacheInvariant
  BY <1>2, OwnContext DEF UpdateSteps
<1>4. CASE Return(p)
  BY <1>1, <1>2, <1>3, <1>4, ReturnStep, StaysForward
<1>5. CASE /\ staged' = [staged EXCEPT ![target(p)] = target(p)]
           /\ Goto(p, FirstReplaceStep)
           /\ UNCHANGED <<held, age, me>>
  <2>1. pc[p] \in BeforeMove /\ FirstReplaceStep \in BeforeMove /\ pc[p] \in Updating
    BY <1>2 DEF BeforeMove, Updating, FirstReplaceStep
  <2>2. me[p] < target(p) /\ staged'[target(p)] = target(p)
    BY <1>3, <1>5, <2>1 DEF OwnUpdate
  <2>3. FirstReplaceStep \in {"rmOld", "moveOut"} => platform = "windows"
    BY DEF FirstReplaceStep
  <2>. QED  BY <1>1, <1>2, <1>3, <1>5, <2>1, <2>2, <2>3, InPlaceStep, StaysForward
<1>. QED  BY <1>4, <1>5 DEF EndExtract

\* The new binary in place: complete, and later than the one that ran.
LEMMA MovedIn ==
  ASSUME Solo, UpdateInvariant, CacheInvariant', NEW p \in Updaters, pc[p] \in {"replace", "moveIn"},
         exe' = staged[target(p)], Goto(p, "cleanup"), UNCHANGED <<platform, old, me>>
  PROVE  Forward
<1>0. CacheInvariant /\ OwnUpdate(p) /\ p \in Procs
  BY UpdateAssumption DEF UpdateInvariant
<1>1. pc'[p] = "cleanup" /\ \A q \in Procs \ {p} : pc'[q] = pc[q]
  BY <1>0, GotoIsLocal
<1>2. target(p) \in 1..MaxReleases /\ me[p] < target(p) /\ exe' = target(p)
  <2>1. pc[p] \in UpdateSteps /\ pc[p] \in Updating /\ pc[p] \in Staged
    BY DEF UpdateSteps, Updating, Staged
  <2>. QED  BY <1>0, <2>1, OwnContext DEF OwnUpdate
<1>3. OwnUpdate(p)'
  BY <1>1 DEF OwnUpdate, BeforeMove, Updating, Staged, FetchSteps
<1>4. BinarySurvives'
  BY <1>2 DEF BinarySurvives
<1>5. Installed = me[p] /\ Installed' = target(p)
  <2>1. Installed = me[p]
    BY <1>0 DEF OwnUpdate, Installed, BeforeMove
  <2>. QED  BY <2>1, <1>2, CacheAssumption DEF Installed, Missing
<1>6. Installed' >= Installed
  BY <1>2, <1>5, InstalledIsNat, CacheAssumption
<1>. QED  BY <1>0, <1>1, <1>3, <1>4, <1>6, OwnStep DEF Forward

\* Replace keeps a binary and goes forward.
LEMMA ReplaceForward ==
  ASSUME Solo, UpdateInvariant, NEW p \in Procs, Replace(p)
  PROVE  Forward
<1>1. CacheInvariant'
  BY CacheReplace DEF UpdateInvariant
<1>2. pc[p] = "replace" /\ UNCHANGED <<platform, old>>
  BY DEF Replace
<1>3. p \in Updaters
  BY <1>2, OwnContext DEF UpdateSteps
<1>4. CASE Return(p) /\ UNCHANGED <<exe, staged>>
  BY <1>1, <1>2, <1>3, <1>4, ReturnStep, StaysForward
<1>5. CASE exe' = staged[target(p)] /\ Goto(p, "cleanup") /\ UNCHANGED <<held, age, me>>
  BY <1>1, <1>2, <1>3, <1>5, MovedIn
<1>. QED  BY <1>4, <1>5 DEF Replace

\* RemoveOld keeps a binary and goes forward.
LEMMA RemoveOldForward ==
  ASSUME Solo, UpdateInvariant, NEW p \in Procs, RemoveOld(p)
  PROVE  Forward
<1>1. CacheInvariant'
  BY CacheRemoveOld DEF UpdateInvariant
<1>2. pc[p] = "rmOld" /\ UNCHANGED <<platform, exe, held, me, staged>> /\ Goto(p, "moveOut")
  BY DEF RemoveOld
<1>3. p \in Updaters /\ OwnUpdate(p)
  BY <1>2, OwnContext DEF UpdateSteps
<1>4. pc[p] \in BeforeMove /\ "moveOut" \in BeforeMove /\ pc[p] \in Staged /\ pc[p] \in Updating
  BY <1>2 DEF BeforeMove, Staged, Updating
<1>5. me[p] < target(p) /\ staged'[target(p)] = target(p) /\ platform = "windows"
  BY <1>2, <1>3, <1>4 DEF OwnUpdate
<1>. QED  BY <1>1, <1>2, <1>3, <1>4, <1>5, InPlaceStep, StaysForward

\* MoveOut keeps a binary and goes forward.
LEMMA MoveOutForward ==
  ASSUME Solo, UpdateInvariant, NEW p \in Procs, MoveOut(p)
  PROVE  Forward
<1>1. CacheInvariant'
  BY CacheMoveOut DEF UpdateInvariant
<1>2. pc[p] = "moveOut" /\ UNCHANGED <<platform, staged>>
  BY DEF MoveOut
<1>3. p \in Updaters /\ OwnUpdate(p) /\ CacheInvariant
  BY <1>2, OwnContext DEF UpdateSteps
<1>4. CASE Return(p) /\ UNCHANGED <<exe, old>>
  BY <1>1, <1>2, <1>3, <1>4, ReturnStep, StaysForward
<1>5. CASE old' = exe /\ exe' = Missing /\ Goto(p, "moveIn") /\ UNCHANGED <<held, age, me>>
  <2>1. pc[p] \in BeforeMove /\ pc[p] \in Staged /\ pc[p] \in Updating
    BY <1>2 DEF BeforeMove, Staged, Updating
  <2>2. exe = me[p] /\ exe # Missing /\ me[p] < target(p) /\ staged[target(p)] = target(p) /\ platform = "windows"
    BY <1>2, <1>3, <2>1 DEF OwnUpdate
  <2>3. pc'[p] = "moveIn" /\ \A q \in Procs \ {p} : pc'[q] = pc[q]
    BY <1>3, <1>5, GotoIsLocal
  <2>4. "moveIn" \notin BeforeMove
    BY DEF BeforeMove, FetchSteps
  <2>5. target(p)' = target(p)
    BY <1>5 DEF target
  <2>6. OwnUpdate(p)'
    BY <1>2, <1>5, <2>2, <2>3, <2>4, <2>5 DEF OwnUpdate
  <2>7. BinarySurvives' /\ Installed' = Installed
    <3>1. exe \in 1..MaxReleases
      BY <2>2 DEF UpdateInvariant, BinarySurvives
    <3>. QED  BY <1>2, <1>5, <2>2, <3>1 DEF BinarySurvives, Installed
  <2>. QED  BY <1>1, <1>3, <2>3, <2>6, <2>7, OwnStep, StaysForward
<1>. QED  BY <1>4, <1>5 DEF MoveOut

\* MoveIn keeps a binary and goes forward.
LEMMA MoveInForward ==
  ASSUME Solo, UpdateInvariant, NEW p \in Procs, MoveIn(p)
  PROVE  Forward
<1>1. CacheInvariant'
  BY CacheMoveIn DEF UpdateInvariant
<1>2. pc[p] = "moveIn" /\ UNCHANGED <<platform, old, held, me>>
  BY DEF MoveIn
<1>3. p \in Updaters /\ OwnUpdate(p) /\ CacheInvariant
  BY <1>2, OwnContext DEF UpdateSteps
<1>4. CASE exe' = staged[target(p)] /\ Goto(p, "cleanup")
  BY <1>1, <1>2, <1>3, <1>4, MovedIn
<1>5. CASE Goto(p, "moveBack") /\ UNCHANGED <<exe, staged>>
  <2>1. pc'[p] = "moveBack" /\ \A q \in Procs \ {p} : pc'[q] = pc[q]
    BY <1>3, <1>5, GotoIsLocal
  <2>2. "moveBack" \notin BeforeMove /\ "moveBack" \notin Staged /\ pc[p] \in Updating
    BY <1>2 DEF BeforeMove, FetchSteps, Staged, Updating
  <2>3. target(p)' = target(p)
    BY <1>2 DEF target
  <2>4. OwnUpdate(p)'
    BY <1>2, <1>3, <1>5, <2>1, <2>2, <2>3 DEF OwnUpdate
  <2>5. BinarySurvives' /\ Installed' = Installed
    BY <1>2, <1>5 DEF UpdateInvariant, BinarySurvives, Installed
  <2>. QED  BY <1>1, <1>3, <2>1, <2>4, <2>5, OwnStep, StaysForward
<1>. QED  BY <1>4, <1>5 DEF MoveIn

\* MoveBack keeps a binary and goes forward.
LEMMA MoveBackForward ==
  ASSUME Solo, UpdateInvariant, NEW p \in Procs, MoveBack(p)
  PROVE  Forward
<1>1. CacheInvariant'
  BY CacheMoveBack DEF UpdateInvariant
<1>2. pc[p] = "moveBack" /\ UNCHANGED <<platform, staged>> /\ Return(p)
  BY DEF MoveBack
<1>3. p \in Updaters /\ OwnUpdate(p) /\ CacheInvariant
  BY <1>2, OwnContext DEF UpdateSteps
<1>4. CASE UNCHANGED <<exe, old>>
  BY <1>1, <1>2, <1>3, <1>4, ReturnStep, StaysForward
<1>5. CASE exe' = old /\ old' = Missing
  <2>1. exe = Missing /\ old = me[p] /\ me[p] # Missing
    BY <1>2, <1>3 DEF OwnUpdate
  <2>2. pc'[p] = "idle" /\ \A q \in Procs \ {p} : pc'[q] = pc[q]
    BY <1>2, <1>3, ReturnIsLocal
  <2>3. OwnUpdate(p)'
    BY <2>2 DEF OwnUpdate, BeforeMove, Updating, Staged, FetchSteps
  <2>4. BinarySurvives' /\ Installed' = Installed
    <3>1. old \in 1..MaxReleases
      BY <2>1, CacheAssumption DEF UpdateInvariant, BinarySurvives, Missing
    <3>. QED  BY <1>5, <2>1, <3>1 DEF BinarySurvives, Installed
  <2>. QED  BY <1>1, <1>3, <2>2, <2>3, <2>4, OwnStep, StaysForward
<1>. QED  BY <1>4, <1>5 DEF MoveBack

\* Cleanup keeps a binary and goes forward.
LEMMA CleanupForward ==
  ASSUME Solo, UpdateInvariant, NEW p \in Procs, Cleanup(p)
  PROVE  Forward
<1>1. CacheInvariant'
  BY CacheCleanup DEF UpdateInvariant
<1>2. pc[p] = "cleanup" /\ UNCHANGED <<platform, exe, old>> /\ Return(p)
  BY DEF Cleanup
<1>3. p \in Updaters
  BY <1>2, OwnContext DEF UpdateSteps
<1>. QED  BY <1>1, <1>2, <1>3, ReturnStep, StaysForward

\* Crash keeps a binary and goes forward.
LEMMA CrashForward ==
  ASSUME Solo, UpdateInvariant, NEW p \in Procs, Crash(p)
  PROVE  Forward
<1>1. CacheInvariant'
  BY CacheCrash DEF UpdateInvariant
<1>2. UNCHANGED <<platform, exe, old, staged>> /\ Return(p)
  BY DEF Crash
<1>. QED  BY <1>1, <1>2, ReturnStep, StaysForward

\* Environment keeps a binary and goes forward.
LEMMA EnvironmentForward ==
  ASSUME UpdateInvariant, Environment
  PROVE  Forward
<1>1. CacheInvariant'
  BY CacheEnvironment DEF UpdateInvariant
<1>2. UNCHANGED <<pc, held, platform, exe, old, staged, me>>
  BY DEF Environment, Tick, Publish, updateVars
<1>3. ASSUME NEW p \in Updaters
      PROVE  OwnUpdate(p)'
  <2>1. OwnUpdate(p) /\ target(p)' = target(p)
    BY <1>2 DEF UpdateInvariant, target
  <2>. QED  BY <1>2, <2>1 DEF OwnUpdate
<1>4. UpdateInvariant' /\ Installed' = Installed
  BY <1>1, <1>2, <1>3 DEF UpdateInvariant, BinarySurvives, Installed
<1>. QED  BY <1>4, StaysForward

\* The first binary is in place.
LEMMA UpdateInvariantInit == Init => UpdateInvariant
<1>. SUFFICES ASSUME Init PROVE UpdateInvariant
  OBVIOUS
<1>1. CacheInvariant
  BY CacheInvariantInit
<1>2. exe = 1 /\ \A p \in Procs : pc[p] = "idle"
  BY DEF Init, CacheInit
<1>3. BinarySurvives
  BY <1>2, CacheAssumption DEF BinarySurvives
<1>4. \A p \in Updaters : OwnUpdate(p)
  BY <1>2, UpdateAssumption DEF OwnUpdate, BeforeMove, Updating, Staged, FetchSteps
<1>. QED  BY <1>1, <1>2, <1>3, <1>4 DEF UpdateInvariant, FetchSteps

\* No step of any process loses the binary or takes it back.
LEMMA UpdateInvariantNext ==
  ASSUME Solo
  PROVE  UpdateInvariant /\ [Next]_vars => Forward
<1>. SUFFICES ASSUME UpdateInvariant, [Next]_vars PROVE Forward
  OBVIOUS
<1>1. CASE UNCHANGED vars
  <2>1. UNCHANGED <<pc, held, platform, exe, old, staged, me>> /\ CacheInvariant'
    BY <1>1, CacheInvariantNext DEF vars, cacheVars, updateVars, UpdateInvariant
  <2>2. ASSUME NEW p \in Updaters
        PROVE  OwnUpdate(p)'
    <3>1. OwnUpdate(p) /\ target(p)' = target(p)
      BY <2>1 DEF UpdateInvariant, target
    <3>. QED  BY <2>1, <3>1 DEF OwnUpdate
  <2>3. UpdateInvariant' /\ Installed' = Installed
    BY <2>1, <2>2 DEF UpdateInvariant, BinarySurvives, Installed
  <2>. QED  BY <2>3, StaysForward
<1>2. CASE Environment
  BY <1>2, EnvironmentForward
<1>3. ASSUME NEW p \in Procs, Read(p) \/ BeginUpdate(p) \/ Crash(p)
      PROVE  Forward
  BY <1>3, ReadForward, BeginUpdateForward, CrashForward
<1>4. ASSUME NEW p \in Procs, Step(p)
      PROVE  Forward
  BY <1>4, FetchForward, UseManifestForward, CompareForward, DownloadForward, BeginExtractForward,
     EndExtractForward, ReplaceForward, RemoveOldForward, MoveOutForward, MoveInForward, MoveBackForward,
     CleanupForward DEF Step
<1>. QED  BY <1>1, <1>2, <1>3, <1>4 DEF Next

\* While at most one process updates, a complete binary is in place, or kept
\* aside on Windows, after every step of replace_binary and after every crash.
THEOREM SoloBinarySurvives == Solo => (Spec => []BinarySurvives)
<1>. SUFFICES ASSUME Solo PROVE Spec => []BinarySurvives
  OBVIOUS
<1>1. UpdateInvariant => BinarySurvives
  BY DEF UpdateInvariant
<1>2. UpdateInvariant /\ [Next]_vars => UpdateInvariant'
  BY UpdateInvariantNext DEF Forward
<1>. QED  BY <1>1, <1>2, UpdateInvariantInit, PTL DEF Spec

\* While at most one process updates, no step takes the toolchain back to an
\* earlier release (execute_update, replace_binary).
THEOREM SoloNeverDowngrades == Solo => (Spec => NeverDowngrades)
<1>. SUFFICES ASSUME Solo PROVE Spec => NeverDowngrades
  OBVIOUS
<1>1. UpdateInvariant /\ [Next]_vars => UpdateInvariant' /\ [Installed' >= Installed]_vars
  BY UpdateInvariantNext DEF Forward
<1>. QED  BY <1>1, UpdateInvariantInit, PTL DEF Spec, NeverDowngrades
=============================================================================
