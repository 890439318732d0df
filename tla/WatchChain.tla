----------------------------- MODULE WatchChain -----------------------------
(***************************************************************************)
(* How an edit of the workflow file reaches the daemon (config/watch.go):  *)
(* the directories watched along the path's symlink chain, which events    *)
(* concern the path, and the debounced reload.  Reload models what a       *)
(* reload then decides; here a reload only reads what the path shows.      *)
(*                                                                         *)
(* A path is a sequence of names.  The file system gives each physical     *)
(* path a node; people repoint and remove links, rewrite, remove and       *)
(* restore files between any two steps of the watcher.  A watch is pinned  *)
(* to the directory its spelling resolved to when it was added, and names  *)
(* its events by that spelling.                                            *)
(*                                                                         *)
(* `unseen` is a history variable: the watcher may be blind to a change.   *)
(* Either one fell between the event a walk of the chain answers and the   *)
(* watches the walk asked for, or the walk stopped at a missing entry      *)
(* whose directory was never watched.  The next event that concerns a path *)
(* that resolves mends both, and the revalidation before each dispatch     *)
(* cycle, which is in Reload, reads the file regardless.                   *)
(***************************************************************************)
EXTENDS Integers, Sequences, FiniteSets

CONSTANTS
    Layouts,            \* [path, nodes, choices, shows] records: a path, the initial
                        \* file system, what may become of each entry and
                        \* the text the path shows at first
    MaxChainDepth,      \* maxChainDepth
    MaxChainEdits       \* bound on people's changes

ASSUME ChainAssumption == MaxChainDepth \in Nat \ {0} /\ MaxChainEdits \in Nat

Dir == [kind |-> "dir", to |-> << >>, text |-> 0]
Link(to) == [kind |-> "link", to |-> to, text |-> 0]
File(text) == [kind |-> "file", to |-> << >>, text |-> text]
Missing == [kind |-> "absent", to |-> << >>, text |-> 0]

VARIABLES
    layout,         \* the layout, a set of at most one until it is chosen
    entries,        \* the file system
    watched,        \* fsw: pairs of a spelling and the directory it is pinned to
    fsEvents,       \* names of events not yet taken
    resolved,       \* w.resolved
    chain,          \* w.chain
    links,          \* w.links
    walked,         \* what the walk under way found
    loop,           \* where the watch goroutine is
    armed,          \* the debounce timer
    shows,          \* what the last load read: a text, or blocked
    unseen, chainEdits

chainVars == <<layout, entries, watched, fsEvents, resolved, chain, links, walked, loop, armed,
               shows, unseen, chainEdits>>

Blocked == -1
Nowhere == << >>
NoChainWalk == [dirs |-> {}, links |-> {}, reached |-> FALSE]

TheLayout == CHOOSE l \in layout : TRUE
ConfigPath == TheLayout.path
ParentOf(p) == SubSeq(p, 1, Len(p) - 1)
Own == ParentOf(ConfigPath)

ChainInit ==
    /\ layout = {} /\ entries = << >>
    /\ watched = {} /\ fsEvents = {} /\ resolved = Nowhere /\ chain = {} /\ links = {}
    /\ walked = NoChainWalk /\ loop = "start" /\ armed = FALSE
    /\ shows = Blocked /\ unseen = FALSE /\ chainEdits = 0

-----------------------------------------------------------------------------
(* Walking the file system *)

Lstat(p) == IF p \in DOMAIN entries THEN entries[p] ELSE Missing

\* firstSymlink: the length of the shortest prefix that is a link, every
\* component before it present; 0 if there is none.
FirstSymlink(p) ==
    LET at == {i \in 1..Len(p) :
                 /\ Lstat(SubSeq(p, 1, i)).kind = "link"
                 /\ \A j \in 1..(i - 1) : Lstat(SubSeq(p, 1, j)).kind = "dir"}
    IN IF at = {} THEN 0 ELSE CHOOSE i \in at : TRUE

\* The path with its first link followed.
Followed(p) ==
    LET i == FirstSymlink(p) IN entries[SubSeq(p, 1, i)].to \o SubSeq(p, i + 1, Len(p))

\* The walk: the paths met, ending where no component is a link.
Walk(p) ==
    LET step[k \in 0..MaxChainDepth] ==
          IF k = 0 THEN <<p>>
          ELSE LET before == step[k - 1]
                   last == before[Len(before)]
               IN IF FirstSymlink(last) = 0 THEN before ELSE Append(before, Followed(last))
    IN step[MaxChainDepth]
ChainEnd(p) == LET w == Walk(p) IN w[Len(w)]

\* EvalSymlinks, or Nowhere for an error.
Evaluated(p) == IF Lstat(ChainEnd(p)).kind \in {"file", "dir"} THEN ChainEnd(p) ELSE Nowhere

\* The definition the path shows now.
Visible == LET at == Evaluated(ConfigPath) IN IF at = Nowhere THEN Blocked ELSE entries[at].text

\* walkChain: the path's own directory, the directory of every link followed,
\* and the directory of the end; the links; whether the end exists.
WalkChainLeaf ==
    LET end == ChainEnd(ConfigPath)
    IN [dirs |-> {Own, ParentOf(end)},
        links |-> IF Lstat(ConfigPath).kind = "link" THEN {ConfigPath} ELSE {},
        reached |-> Lstat(end).kind \in {"file", "dir"}]
WalkChain ==
    LET met == Walk(ConfigPath)
        ls == {SubSeq(met[i], 1, FirstSymlink(met[i])) : i \in 1..(Len(met) - 1)}
        end == met[Len(met)]
    IN [dirs |-> ({Own, ParentOf(end)} \cup {ParentOf(l) : l \in ls}) \ {<< >>},
        links |-> ls,
        reached |-> Lstat(end).kind \in {"file", "dir"}]

\* The walk stopped at a missing entry of a directory nobody watches.
StopsBlind ==
    LET end == ChainEnd(ConfigPath)
        gap == CHOOSE i \in 1..Len(end) :
                 /\ Lstat(SubSeq(end, 1, i)).kind = "absent"
                 /\ \A j \in 1..(i - 1) : Lstat(SubSeq(end, 1, j)).kind = "dir"
    IN SubSeq(end, 1, gap - 1) \notin WalkChain.dirs \cup {w.pinned : w \in watched}

-----------------------------------------------------------------------------
(* People *)

\* Every watch on the directory of the entry reports the change.
Reported(p) == {Append(w.spelling, p[Len(p)]) : w \in {x \in watched : x.pinned = ParentOf(p)}}

InWindow == loop \in {"base", "baseline", "walk0", "adds0", "walk", "adds"}

PersonChanges ==
    /\ loop # "start" /\ chainEdits < MaxChainEdits
    /\ \E p \in DOMAIN TheLayout.choices :
         \E node \in TheLayout.choices[p] \ {entries[p]} :
           entries' = [entries EXCEPT ![p] = node] /\ fsEvents' = fsEvents \cup Reported(p)
    /\ chainEdits' = chainEdits + 1
    /\ unseen' = (unseen \/ InWindow)
    /\ UNCHANGED <<layout, watched, resolved, chain, links, walked, loop, armed, shows>>

-----------------------------------------------------------------------------
(* Watch: load, watch the path's own directory, take the baseline, sync *)

WatchLoads ==
    /\ loop = "start"
    /\ \E l \in Layouts :
         /\ layout' = {l} /\ entries' = l.nodes
         /\ shows' = l.shows
    /\ loop' = "base"
    /\ UNCHANGED <<watched, fsEvents, resolved, chain, links, walked, armed, unseen, chainEdits>>

WatchAddsBase ==
    /\ loop = "base"
    /\ watched' = IF Evaluated(Own) = Nowhere THEN watched
                  ELSE watched \cup {[spelling |-> Own, pinned |-> Evaluated(Own)]}
    /\ loop' = IF Evaluated(Own) = Nowhere THEN "failed" ELSE "baseline"
    /\ UNCHANGED <<layout, entries, fsEvents, resolved, chain, links, walked, armed, shows, unseen, chainEdits>>

WatchTakesBaseline ==
    /\ loop = "baseline"
    /\ resolved' = Evaluated(ConfigPath)
    /\ loop' = "walk0"
    /\ UNCHANGED <<layout, entries, watched, fsEvents, chain, links, walked, armed, shows, unseen, chainEdits>>

-----------------------------------------------------------------------------
(* run: the watch goroutine *)

\* concerns: the resolution is taken on every event, and kept when it moved.
BaselineEarly(name) ==
    LET cur == Evaluated(ConfigPath) IN IF cur = Nowhere \/ name = ConfigPath THEN resolved ELSE cur
Baseline(name) ==
    LET cur == Evaluated(ConfigPath) IN IF cur = Nowhere THEN resolved ELSE cur
ConcernsWithoutLinks(name) ==
    \/ name = ConfigPath
    \/ Evaluated(ConfigPath) \notin {Nowhere, resolved}
    \/ resolved # Nowhere /\ name = resolved
ConcernsByName(name) == name = ConfigPath \/ Evaluated(ConfigPath) \notin {Nowhere, resolved} \/ name \in links
Concerns(name) ==
    \/ name = ConfigPath
    \/ Evaluated(ConfigPath) \notin {Nowhere, resolved}
    \/ resolved # Nowhere /\ name = resolved
    \/ name \in links

TakeEvent ==
    /\ loop = "select"
    /\ \E name \in fsEvents :
         /\ fsEvents' = fsEvents \ {name}
         /\ resolved' = Baseline(name)
         /\ loop' = IF Concerns(name) THEN "walk" ELSE "select"
         /\ unseen' = (unseen /\ ~(Concerns(name) /\ Visible # Blocked))
    /\ UNCHANGED <<layout, entries, watched, chain, links, walked, armed, shows, chainEdits>>

\* syncChain, first half: what the chain asks for.
SyncWalks ==
    /\ loop \in {"walk", "walk0"}
    /\ walked' = WalkChain
    /\ loop' = IF loop = "walk" THEN "adds" ELSE "adds0"
    /\ unseen' = (unseen \/ (~WalkChain.reached /\ StopsBlind))
    /\ UNCHANGED <<layout, entries, watched, fsEvents, resolved, chain, links, armed, shows, chainEdits>>

\* Second half: add what joined, an unresolvable directory excepted; drop what
\* left, unless the walk did not reach a file.  Then the timer.
JoinedDirs == {d \in walked.dirs \ {Own} : Evaluated(d) # Nowhere}
KeptNever == {}
Kept == IF walked.reached THEN {} ELSE chain \ walked.dirs
SyncAdds ==
    /\ loop \in {"adds", "adds0"}
    /\ LET left == (chain \ walked.dirs) \ Kept
           spelled == {w.spelling : w \in watched}
       IN watched' = {w \in watched : w.spelling \notin left}
                       \cup {[spelling |-> d, pinned |-> Evaluated(d)] : d \in JoinedDirs \ spelled}
    /\ chain' = JoinedDirs \cup Kept
    /\ links' = IF walked.reached THEN walked.links ELSE links \cup walked.links
    /\ walked' = NoChainWalk
    /\ armed' = (armed \/ loop = "adds")
    /\ loop' = "select"
    /\ UNCHANGED <<layout, entries, fsEvents, resolved, shows, unseen, chainEdits>>

\* The debounce ends and apply loads what the path shows; a load that fails
\* blocks dispatch.
TimerFires ==
    /\ loop = "select" /\ armed
    /\ armed' = FALSE
    /\ shows' = Visible
    /\ UNCHANGED <<layout, entries, watched, fsEvents, resolved, chain, links, walked, loop, unseen, chainEdits>>

ChainNext ==
    \/ PersonChanges \/ WatchLoads \/ WatchAddsBase \/ WatchTakesBaseline
    \/ TakeEvent \/ SyncWalks \/ SyncAdds \/ TimerFires

ChainSpec == ChainInit /\ [][ChainNext]_chainVars

-----------------------------------------------------------------------------
(* Properties *)

\* The shape of the state.
ChainTypeOK ==
    /\ Cardinality(layout) <= 1 /\ chainEdits \in 0..MaxChainEdits
    /\ loop \in {"start", "base", "baseline", "walk0", "adds0", "select", "walk", "adds", "failed"}

\* A quiet watcher is not behind: with no event to take, no timer armed and no
\* blind spot, the daemon serves what the path shows, or is blocked
\* because the path shows nothing (watch.go, concerns and syncChain).
QuietIsCurrent ==
    (loop = "select" /\ fsEvents = {} /\ ~armed /\ ~unseen) => shows = Visible

\* And it will not fall behind: at rest, every entry the path runs through and
\* the file it ends at lies in a directory that is watched.
QuietWatchesChain ==
    (loop = "select" /\ fsEvents = {} /\ ~armed /\ ~unseen /\ Visible # Blocked) =>
        LET met == Walk(ConfigPath)
            passed == {SubSeq(met[i], 1, FirstSymlink(met[i])) : i \in 1..(Len(met) - 1)}
                         \cup {met[Len(met)]}
        IN \A e \in passed : \E w \in watched : w.pinned = ParentOf(e)

\* The path's own directory keeps its watch whatever the links do.
OwnStaysWatched == loop = "select" => \E w \in watched : w.spelling = Own

ChainSafe == ChainTypeOK /\ QuietIsCurrent /\ QuietWatchesChain /\ OwnStaysWatched

=============================================================================
