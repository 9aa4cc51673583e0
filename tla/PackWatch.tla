------------------------------ MODULE PackWatch ------------------------------
(***************************************************************************)
(* The design pack watcher (design-pack-watch.ts): file system events, the *)
(* debounce, scans under the scanning flag, and the moves they announce.   *)
(***************************************************************************)
EXTENDS Naturals, Sequences

CONSTANTS
    Scans,      \* scans that may be under way or asked for
    MaxChange,  \* bound on the changes of the pack
    MaxScans,   \* bound on the scans of a behaviour
    None

VARIABLES
    disk,      \* version of the pack; a digest stands for it
    known,     \* lastSnapshot, None before the first start
    watching, logging,  \* FSWatchers are installed, and logMoved is set
    debounce,  \* the debounce timer runs
    scanning,  \* the flag
    scan,      \* each scan: where it is, and the version on disk when it began
    starting,  \* start() has stopped the old watch and not yet installed the new one
    moves,     \* the moves announced: from and to
    persisted, \* how many of them have been written to the events table
    dropped,   \* a scan was refused, or a start or unwatch got in between
    spared     \* scans left of MaxScans

packVars == <<disk, known, watching, logging, debounce, scanning, scan, starting, moves,
              persisted, dropped, spared>>

Versions == 0 .. MaxChange

TypeOK ==
    /\ disk \in Versions /\ known \in Versions \cup {None}
    /\ {watching, logging, debounce, scanning, starting, dropped} \subseteq BOOLEAN
    /\ scan \in [Scans -> [at : {"none", "read", "log"}, saw : Versions, force : BOOLEAN]]
    /\ moves \in Seq([from : Versions \cup {None}, to : Versions])
    /\ persisted \in 0 .. Len(moves) /\ spared \in Nat

Init ==
    /\ disk = 0 /\ known = None
    /\ watching = FALSE /\ logging = FALSE /\ debounce = FALSE /\ scanning = FALSE
    /\ scan = [s \in Scans |-> [at |-> "none", saw |-> 0, force |-> FALSE]]
    /\ starting = FALSE /\ moves = <<>> /\ persisted = 0 /\ dropped = FALSE /\ spared = MaxScans

\* start(): stop, then a first snapshot, which is the baseline, then watchers.
BeginWatch ==
    /\ ~starting /\ starting' = TRUE
    /\ watching' = FALSE /\ logging' = TRUE /\ debounce' = FALSE
    /\ dropped' = (dropped \/ scanning)
    /\ UNCHANGED <<disk, known, scanning, scan, moves, persisted, spared>>

Watch ==
    /\ starting /\ starting' = FALSE
    /\ known' = disk /\ watching' = TRUE
    /\ UNCHANGED <<disk, logging, debounce, scanning, scan, moves, persisted, dropped, spared>>

Unwatch ==
    /\ watching' = FALSE /\ logging' = FALSE /\ debounce' = FALSE
    /\ dropped' = (dropped \/ starting \/ scanning)
    /\ UNCHANGED <<disk, known, scanning, scan, starting, moves, persisted, spared>>

\* Someone writes the pack: a file system event, and the debounce starts anew.
Change ==
    /\ disk < MaxChange /\ disk' = disk + 1
    /\ debounce' = (debounce \/ watching)
    /\ dropped' = (dropped \/ (starting /\ ~watching))
    /\ UNCHANGED <<known, watching, logging, scanning, scan, starting, moves, persisted, spared>>

\* The timer, or design.pack.scan.  The flag refuses a scan while one is under
\* way: what changed meanwhile is not looked at until something changes again.
MayScan == ~scanning
StartScan(s, asked, force) ==
    /\ scan[s].at = "none" /\ spared > 0 /\ known # None
    /\ IF asked THEN watching ELSE debounce /\ ~force
    /\ debounce' = (debounce /\ asked)
    /\ IF MayScan
       THEN /\ scan' = [scan EXCEPT ![s] = [at |-> "read", saw |-> disk, force |-> force]]
            /\ scanning' = TRUE /\ spared' = spared - 1 /\ UNCHANGED dropped
       ELSE dropped' = (dropped \/ ~asked) /\ UNCHANGED <<scan, scanning, spared>>
    /\ UNCHANGED <<disk, known, watching, logging, starting, moves, persisted>>

\* The snapshot, of the pack as it was at some time since the scan began, is
\* compared with the last one and announced on the bus.
FinishScan(s, saw) ==
    /\ scan[s].at = "read" /\ saw \in scan[s].saw .. disk
    /\ known' = saw
    /\ IF known = saw /\ ~scan[s].force
       THEN /\ scan' = [scan EXCEPT ![s].at = "none"] /\ scanning' = FALSE
            /\ UNCHANGED moves
       ELSE /\ moves' = Append(moves, [from |-> known, to |-> saw])
            /\ scan' = [scan EXCEPT ![s].at = IF logging THEN "log" ELSE "none"]
            /\ scanning' = logging
    /\ UNCHANGED <<disk, watching, logging, debounce, starting, persisted, dropped, spared>>

\* persistMoved, which may fail; the flag is cleared either way.
LogMoved(s) ==
    /\ scan[s].at = "log" /\ scan' = [scan EXCEPT ![s].at = "none"] /\ scanning' = FALSE
    /\ persisted' \in {persisted, persisted + 1}
    /\ UNCHANGED <<disk, known, watching, logging, debounce, starting, moves, dropped, spared>>

\* Nothing is claimed once something was dropped, so the model ends there.
Next ==
  ~dropped /\
  ( \/ BeginWatch \/ Watch \/ Unwatch \/ Change
    \/ \E s \in Scans :
          \/ \E asked, force \in BOOLEAN : StartScan(s, asked, force)
          \/ \E saw \in Versions : FinishScan(s, saw)
          \/ LogMoved(s) )

Spec == Init /\ [][Next]_packVars
-----------------------------------------------------------------------------
\* While no start or unwatch interferes, a watched pack at rest is known as it
\* is on disk, unless a scan was refused by the flag.
RestIsKnown ==
    watching /\ ~dropped /\ ~debounce /\ ~scanning => known = disk

\* Moves tell a story: each begins where the last one ended and none leads back.
MovesAreInOrder ==
    ~dropped => \A i \in DOMAIN moves : /\ moves[i].from <= moves[i].to
                                        /\ i > 1 => moves[i - 1].to <= moves[i].from
=============================================================================
