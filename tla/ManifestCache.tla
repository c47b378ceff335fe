--------------------------- MODULE ManifestCache ---------------------------
(***************************************************************************)
(* fetch_manifest (apps/infs/src/toolchain/manifest.rs): the release       *)
(* manifest, answered from ~/.inference/cache/manifest.json when that file *)
(* parses, and otherwise fetched from the server and saved.  `install`,    *)
(* `versions`, `self update` and the TUI's version loader call it, in      *)
(* processes and threads that nothing synchronises.                        *)
(*                                                                         *)
(* The server only ever adds releases, so a manifest is the number of      *)
(* releases it lists and a release is its rank in the order of             *)
(* latest_version (semantic versions, unparsable ones below them).  The    *)
(* cache file is absent, torn (does not parse) or valid.                   *)
(***************************************************************************)
EXTENDS Naturals, FiniteSets

CONSTANTS Procs,        \* processes and threads that need the manifest
          MaxReleases,  \* bound: releases the server publishes
          Stable,       \* the releases with stable: true
          MaxTime,      \* bound: the clock
          TTL,          \* life of the cache: 15 minutes in the doc comment
          MaxCrashes    \* bound: processes killed

ASSUME CacheAssumption ==
    /\ MaxReleases \in Nat \ {0}
    /\ Stable \subseteq 1..MaxReleases
    /\ MaxTime \in Nat
    /\ TTL \in Nat
    /\ MaxCrashes \in Nat

VARIABLES server,   \* the manifest the server hands out now
          cache,    \* the cache file
          now,      \* the clock
          pc,       \* the step a process is about to take
          held,     \* the manifest it has in memory, 0 for none
          age,      \* how old that manifest was when it was obtained
          file,     \* what has become of the cache file it is writing
          crashes

cacheVars == <<server, cache, now, pc, held, age, file, crashes>>

NoCache == [state |-> "none", manifest |-> 0, saved |-> 0]
Torn == [state |-> "torn", manifest |-> 0, saved |-> 0]
Valid(m, t) == [state |-> "valid", manifest |-> m, saved |-> t]

FetchSteps == {"idle", "load", "discard", "network", "truncate", "fill", "use"}

CacheTypeOK ==
    /\ server \in 1..MaxReleases
    /\ cache \in {NoCache, Torn} \cup {Valid(m, t) : m \in 1..MaxReleases, t \in 0..MaxTime}
    /\ now \in 0..MaxTime
    /\ held \in [Procs -> 0..MaxReleases]
    /\ age \in [Procs -> 0..MaxTime]
    /\ file \in [Procs -> {"own", "dirty", "unlinked"}]
    /\ crashes \in 0..MaxCrashes

CacheInit ==
    /\ server = 1
    /\ cache = NoCache
    /\ now = 0
    /\ pc = [p \in Procs |-> "idle"]
    /\ held = [p \in Procs |-> 0]
    /\ age = [p \in Procs |-> 0]
    /\ file = [p \in Procs |-> "own"]
    /\ crashes = 0

-----------------------------------------------------------------------------
(* The environment: the clock and the distribution server.                 *)

Tick ==
    /\ now < MaxTime
    /\ now' = now + 1
    /\ UNCHANGED <<server, cache, pc, held, age, file, crashes>>

Publish ==
    /\ server < MaxReleases
    /\ server' = server + 1
    /\ UNCHANGED <<cache, now, pc, held, age, file, crashes>>

-----------------------------------------------------------------------------
(* fetch_manifest.                                                         *)

Goto(p, step) == pc' = [pc EXCEPT ![p] = step]

BeginFetch(p) ==
    /\ pc[p] = "idle"
    /\ Goto(p, "load")
    /\ UNCHANGED <<server, cache, now, held, age, file, crashes>>

Obtain(p, m, a) ==
    /\ held' = [held EXCEPT ![p] = m]
    /\ age' = [age EXCEPT ![p] = a]

\* Mutant: a cache that does not parse is answered all the same.
MutLoadFromCache(p) ==
    /\ pc[p] = "load"
    /\ \/ /\ cache = NoCache
          /\ Goto(p, "network")
          /\ UNCHANGED <<held, age>>
       \/ /\ cache # NoCache
          /\ Obtain(p, cache.manifest, now - cache.saved)
          /\ Goto(p, "use")
    /\ UNCHANGED <<server, cache, now, file, crashes>>

\* load_from_cache: whatever parses is answered.  The timestamp is read with
\* the rest and compared with nothing.
LoadFromCache(p) ==
    /\ pc[p] = "load"
    /\ \/ /\ cache.state = "valid"
          /\ Obtain(p, cache.manifest, now - cache.saved)
          /\ Goto(p, "use")
       \/ /\ cache.state = "torn"
          /\ Goto(p, "discard")
          /\ UNCHANGED <<held, age>>
       \/ /\ cache.state = "none"
          /\ Goto(p, "network")
          /\ UNCHANGED <<held, age>>
    /\ UNCHANGED <<server, cache, now, file, crashes>>

\* Mutant: the file stays and is read again.
MutDiscardCache(p) ==
    /\ pc[p] = "discard"
    /\ Goto(p, "load")
    /\ UNCHANGED <<server, cache, now, held, age, file, crashes>>

\* remove_file takes whatever has the name by now, a file that another
\* process has just completed included.
DiscardCache(p) ==
    /\ pc[p] = "discard"
    /\ cache' = NoCache
    /\ file' = [q \in Procs |-> IF pc[q] = "fill" THEN "unlinked" ELSE file[q]]
    /\ Goto(p, "network")
    /\ UNCHANGED <<server, now, held, age, crashes>>

\* The request may fail or time out: fetch_manifest returns the error.
FetchFromNetwork(p) ==
    /\ pc[p] = "network"
    /\ \/ Obtain(p, server, 0) /\ Goto(p, "truncate")
       \/ Goto(p, "idle") /\ UNCHANGED <<held, age>>
    /\ UNCHANGED <<server, cache, now, file, crashes>>

\* save_to_cache is best effort: std::fs::write truncates, then fills, and
\* nobody hears when either fails.
TruncateCache(p) ==
    /\ pc[p] = "truncate"
    /\ \/ /\ cache' = Torn
          /\ file' = [file EXCEPT ![p] = "own"]
          /\ Goto(p, "fill")
       \/ /\ UNCHANGED <<cache, file>>
          /\ Goto(p, "use")
    /\ UNCHANGED <<server, now, held, age, crashes>>

\* A second writer of the same file overwrites the first from the start: the
\* rest of a longer text stays behind it.
FillCache(p) ==
    /\ pc[p] = "fill"
    /\ \/ file[p] # "unlinked" /\ cache' = Valid(held[p], now)
       \/ file[p] = "dirty" /\ cache' = Torn
       \/ UNCHANGED cache
    /\ file' = [q \in Procs |-> IF q # p /\ pc[q] = "fill" /\ file[q] = "own" /\ file[p] # "unlinked"
                                THEN "dirty" ELSE file[q]]
    /\ Goto(p, "use")
    /\ UNCHANGED <<server, now, held, age, crashes>>

FetchStep(p) ==
    \/ LoadFromCache(p) \/ DiscardCache(p) \/ FetchFromNetwork(p)
    \/ TruncateCache(p) \/ FillCache(p)

-----------------------------------------------------------------------------
(* What the callers pick from the manifest they are given.                 *)

latest(S) == CHOOSE r \in S : \A s \in S : s <= r

\* latest_stable, or else latest_version.
latest_release(m) ==
    LET stable == Stable \cap 1..m
    IN  IF stable # {} THEN latest(stable) ELSE latest(1..m)

-----------------------------------------------------------------------------
\* No caller ever gets a manifest the server did not publish: a cache file
\* caught between truncation and write, left by a killed process or written by
\* two processes at once is never answered (load_from_cache).
AnswersArePublished ==
    \A p \in Procs : pc[p] = "use" => held[p] \in 1..server

\* fetch_manifest promises "a local cache with 15-minute TTL": what it answers
\* is not older than that.
CacheExpires == \A p \in Procs : pc[p] = "use" => age[p] <= TTL
=============================================================================
