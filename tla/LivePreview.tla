------------------------------ MODULE LivePreview ------------------------------
(***************************************************************************)
(* The live preview of one match: one FFmpeg that writes a rolling         *)
(* playlist, the path of the WebRTC gateway (mediamtx) it may read from,   *)
(* and a start point an operator has pinned (_ClipPinStore).               *)
(*                                                                         *)
(* Opening a preview is two steps: the gateway registers the path and the  *)
(* request waits until it is ready, then the manager starts FFmpeg under   *)
(* its lock.  The reaper (idle, relaunch), a stop and other tabs run       *)
(* meanwhile.  Segments are numbered within a run, a cold start being a    *)
(* new run; a relaunch appends to the playlist of the run.                 *)
(***************************************************************************)
EXTENDS Naturals, FiniteSets

CONSTANTS Tabs,         \* browser tabs that may open the preview
          Window,       \* list_size: segments the playlist keeps
          Range,        \* clip_range_max_seconds, in segments
          MaxSegments,  \* segments of a run (bound)
          MaxRuns       \* cold starts (bound)

VARIABLES
    entry,      \* LivePreviewManager.entries: what FFmpeg reads, or none
    alive,      \* FFmpeg runs
    frozen,     \* relaunched and no new segment yet
    watched,    \* accessed within the idle timeout
    path,       \* the gateway has the path
    remembered, \* MediaMtxGateway.sources
    reachable,  \* the gateway's API answers
    leaked,     \* a removal it did not hear left a path behind
    upstream,   \* the source is pushed
    request,    \* what each tab's preview/start is doing
    run, next,  \* cold starts; number of the next segment
    live,       \* segments of the playlist
    pin,        \* the pinned start and the segments linked for it
    absorbed    \* newest segment of the run the pins have seen

gateway == <<path, remembered, reachable, leaked, upstream>>
process == <<entry, alive, frozen, watched>>
media == <<run, next, live>>
pins == <<pin, absorbed>>
vars == <<process, gateway, request, media, pins>>

NoPin == [on |-> FALSE, start |-> 0, run |-> 0, held |-> {}]

(***************************************************************************)
(* Opening: _preview_sources, then LivePreviewManager.start.               *)
(***************************************************************************)

\* remove_path, which an unreachable gateway does not hear.
Removed ==
    /\ remembered' = FALSE
    /\ path' = (path /\ ~reachable)
    /\ leaked' = (leaked \/ (path /\ ~reachable))

\* ensure_path, when the gateway answers.
Registered ==
    /\ reachable
    /\ path' = TRUE /\ remembered' = TRUE
    /\ UNCHANGED leaked

\* The path is registered and the tab waits for it.  A gateway that does not
\* answer leaves the tab with the upstream itself, and the path is removed.
Ask(t) ==
    /\ request[t] = "idle"
    /\ \/ Registered /\ request' = [request EXCEPT ![t] = "waiting"]
       \/ ~reachable /\ Removed /\ request' = [request EXCEPT ![t] = "direct"]
    /\ UNCHANGED <<process, reachable, upstream, media, pins>>

\* The path is ready, or the wait is over.
Ready(t) ==
    /\ request[t] = "waiting"
    /\ \/ /\ path /\ upstream
          /\ request' = [request EXCEPT ![t] = "loopback"]
          /\ UNCHANGED <<path, remembered, leaked>>
       \/ request' = [request EXCEPT ![t] = "direct"] /\ Removed
    /\ UNCHANGED <<process, reachable, upstream, media, pins>>

\* A new playlist in an empty directory.
ColdStart ==
    /\ run < MaxRuns /\ run' = run + 1
    /\ next' = 0 /\ live' = {} /\ absorbed' = 0 /\ frozen' = FALSE

Launch(t) ==
    /\ request[t] \in {"loopback", "direct"}
    /\ request' = [request EXCEPT ![t] = "idle"]
    /\ entry' = request[t] /\ alive' = TRUE /\ watched' = TRUE
    /\ IF entry # request[t] THEN ColdStart
       ELSE /\ frozen' = (frozen \/ (~alive /\ live # {}))
            /\ UNCHANGED <<media, absorbed>>
    /\ UNCHANGED <<gateway, pin>>

(***************************************************************************)
(* Stop, reaper, failures.                                                 *)
(***************************************************************************)

\* The sibling path stays with the gateway.
SiblingStays == UNCHANGED <<path, remembered, leaked>>

\* on_stop = MediaMtxGateway.remove_path
ReleaseSibling == Removed

\* _stop_entry_locked: the operator stops it, or nobody has looked at it.
Stop ==
    /\ entry # "none"
    /\ entry' = "none" /\ alive' = FALSE /\ frozen' = FALSE /\ watched' = FALSE
    /\ live' = {} /\ ReleaseSibling
    /\ UNCHANGED <<reachable, upstream, request, run, next, pins>>

\* A tab asks for status or media, or none does for long.
Touch == entry # "none" /\ watched' = TRUE
         /\ UNCHANGED <<entry, alive, frozen, gateway, request, media, pins>>
Idle == watched' = FALSE
        /\ UNCHANGED <<entry, alive, frozen, gateway, request, media, pins>>

\* on_restart: register the path again, or read the upstream if it is known.
BeforeRestart ==
    \/ entry = "direct" /\ UNCHANGED <<entry, path, remembered, leaked>>
    \/ entry = "loopback" /\ remembered /\ Registered /\ UNCHANGED entry
    \/ /\ entry = "loopback" /\ ~(remembered /\ reachable)
       /\ entry' = (IF remembered THEN "direct" ELSE entry) /\ Removed

\* The reaper starts a dead FFmpeg again, which appends to the playlist.
Relaunch ==
    /\ entry # "none" /\ ~alive /\ watched
    /\ BeforeRestart
    /\ alive' = TRUE /\ frozen' = (frozen \/ live # {})
    /\ UNCHANGED <<watched, reachable, upstream, request, media, pins>>

\* FFmpeg ends, with or without its input.
Dies == alive /\ alive' = FALSE
        /\ UNCHANGED <<entry, frozen, watched, gateway, request, media, pins>>

SourceChanges == upstream' = ~upstream
                 /\ UNCHANGED <<process, path, remembered, reachable, leaked, request, media, pins>>

\* The gateway restarts without the paths its API added, or stops answering.
GatewayRestarts == reachable' = TRUE /\ path' = FALSE /\ leaked' = FALSE
                   /\ UNCHANGED <<process, remembered, upstream, request, media, pins>>
GatewayHangs == reachable' = FALSE
                /\ UNCHANGED <<process, path, remembered, leaked, upstream, request, media, pins>>

(***************************************************************************)
(* Segments and the pinned start.                                          *)
(***************************************************************************)

HasInput == alive /\ upstream /\ (entry = "loopback" => path)

Oldest == CHOOSE n \in live : \A m \in live : n <= m
Rolled == IF Cardinality(live) < Window THEN live ELSE live \ {Oldest}

\* _refresh_frozen_locked: the playlist no longer ends where the earlier FFmpeg left it.
Resumed == frozen' = FALSE

\* The playlist is much longer than the reaper's interval: a segment leaves
\* it only after the reaper has seen it.
Write ==
    /\ HasInput /\ next < MaxSegments
    /\ \A n \in live \ Rolled : n < absorbed
    /\ live' = Rolled \cup {next} /\ next' = next + 1 /\ Resumed
    /\ UNCHANGED <<entry, alive, watched, gateway, request, run, pins>>

Wanted(start) == {n \in live : start <= n /\ n < start + Range}

\* _absorb_locked: a name that is linked already is not linked again.
Absorbs(p) == p.held \cup Wanted(p.start)

SetStart(n) ==
    /\ entry # "none" /\ n \in live /\ ~pin.on
    /\ pin' = [on |-> TRUE, start |-> n, run |-> run, held |-> Wanted(n)]
    /\ UNCHANGED <<process, gateway, request, media, absorbed>>

\* absorb_all, on the reaper's timer.
Absorb ==
    /\ absorbed # next
    /\ pin' = IF pin.on THEN [pin EXCEPT !.held = Absorbs(pin)] ELSE pin
    /\ absorbed' = next
    /\ UNCHANGED <<process, gateway, request, media>>

\* Clipped, released, or past its time to live.
Release ==
    /\ pin.on /\ pin' = NoPin
    /\ UNCHANGED <<process, gateway, request, media, absorbed>>

Init ==
    /\ entry = "none" /\ alive = FALSE /\ frozen = FALSE /\ watched = FALSE
    /\ path = FALSE /\ remembered = FALSE /\ leaked = FALSE /\ reachable \in BOOLEAN /\ upstream \in BOOLEAN
    /\ request = [t \in Tabs |-> "idle"]
    /\ run = 0 /\ next = 0 /\ live = {}
    /\ pin = NoPin /\ absorbed = 0

Next ==
    \/ \E t \in Tabs : Ask(t) \/ Ready(t) \/ Launch(t)
    \/ Stop \/ Touch \/ Idle \/ Relaunch \/ Dies
    \/ SourceChanges \/ GatewayRestarts \/ GatewayHangs
    \/ Write \/ Absorb \/ Release
    \/ \E n \in 0..MaxSegments : SetStart(n)

Spec == Init /\ [][Next]_vars
------------------------------------------------------------------------------
TypeOK ==
    /\ entry \in {"none", "loopback", "direct"}
    /\ {alive, frozen, watched, path, remembered, leaked, reachable, upstream} \subseteq BOOLEAN
    /\ request \in [Tabs -> {"idle", "waiting", "loopback", "direct"}]
    /\ run \in 0..MaxRuns /\ next \in 0..MaxSegments /\ live \subseteq 0..MaxSegments
    /\ pin \in [on : BOOLEAN, start : 0..MaxSegments, run : 0..MaxRuns, held : SUBSET (0..MaxSegments)]
    /\ absorbed \in 0..MaxSegments

(***************************************************************************)
(* The gateway does not pull a source for nobody: a path it has belongs to *)
(* a preview or to a tab that is opening one, whatever tabs, stops, the    *)
(* reaper and restarts of the gateway do in between, as long as it hears   *)
(* the removal (LivePreviewManager.on_stop, _preview_sources).             *)
(***************************************************************************)
PathHasUser ==
    path => \/ entry # "none" \/ leaked
            \/ \E t \in Tabs : request[t] \in {"waiting", "loopback"}

(***************************************************************************)
(* A pinned start stays clippable: every frame from the start on is linked *)
(* or still in the playlist, although the playlist rolls and FFmpeg dies   *)
(* and is relaunched (_ClipPinStore: "a start chosen just before the       *)
(* source drops keeps its footage").  A cold start begins a new run.       *)
(***************************************************************************)
PinWhole ==
    pin.on /\ pin.run = run /\ live # {} =>
       \A n \in pin.start..next - 1 : n < pin.start + Range => n \in pin.held \cup live
==============================================================================
