----------------------------- MODULE Workbench ------------------------------
(***************************************************************************)
(* The page of the workbench: the event stream and the events it keeps,    *)
(* the calls that fill them in, the flow graph panels with their runs,     *)
(* replays and drafts, the event graph that follows one of them, and what  *)
(* is written to storage.  One page of one browser tab, one flow version.  *)
(* An action is an event of the browser with the React commit it leads to: *)
(* the effects of a commit run before the next event of the browser.       *)
(***************************************************************************)
EXTENDS Naturals, Sequences, SequencesExt, FiniteSets, FiniteSetsExt

CONSTANTS
    Tabs, EventGraph, NoTab,  \* the flow graph panels; the panel that follows one
    OpenedAs,                 \* per tab: how the tree opens it, and the run it opens at
    Runs, NoRun, History,     \* History: the runs over before the page is loaded
    PerRun,                   \* events of each run, the last is run.completed
    MaxBuffer, MaxEvents,     \* the two windows of the page, 5000 each in the code
    Scenes                    \* what a page may go through, see left

ASSUME PageAssumption ==
    /\ EventGraph \notin Tabs /\ NoTab \notin Tabs \cup {EventGraph} /\ NoRun \notin Runs
    /\ IsFiniteSet(History) /\ History \subseteq Runs /\ PerRun \in [Runs -> Nat]
    /\ MaxBuffer \in Nat /\ MaxEvents \in Nat
    /\ \A t \in Tabs : OpenedAs[t].kind \in {"run", "sim"} => OpenedAs[t].run \in Runs

VARIABLES
    left,              \* clicks, modes, visits elsewhere, news, outages, faults to come;
                       \* and the panels that are offered
    happened, begun,   \* the run of each event so far; the runs the server has begun
    written,           \* how many events the server has written to the runs' logs
    stream,            \* of the middleware: open, its buffer, whether it awaits a frame
    kept,              \* the events slice
    query,             \* per run: the call for all its events, and what it was served
    away, pushed,      \* events that were not sent to this page; that a window pushed out
    desk,              \* the dock and the slices of its panels
    posts,             \* run requests without an answer: pairs of tab and run
    saved, unsaved     \* what the storages have; whether something changed since
feedVars == <<happened, begun, written, stream, kept, away, pushed>>
pageVars == <<desk, query, unsaved>>
workbenchVars == <<left, feedVars, pageVars, posts, saved>>

NoReplay == [status |-> "idle", cut |-> 0]
NewPanel == [run |-> NoRun, replay |-> NoReplay, draft |-> FALSE]
NoKey == <<NoTab, NoRun>>
NewGraph == [tracked |-> NoTab, run |-> NoRun, key |-> NoKey, gone |-> FALSE]
Nothing == [events |-> {}, ids |-> <<>>, ofRun |-> [r \in Runs |-> <<>>]]
Uncalled == [is |-> "none", upto |-> 0]

WorkbenchTypeOK ==
    /\ happened \in Seq(Runs) /\ written \in 0 .. Len(happened) /\ begun \subseteq Runs
    /\ stream \in [open : BOOLEAN, buffer : Seq(DOMAIN happened), frame : BOOLEAN]
    /\ kept \in [events : SUBSET DOMAIN happened, ids : Seq(DOMAIN happened),
                 ofRun : [Runs -> Seq(DOMAIN happened)]]
    /\ query \in [Runs -> [is : {"none", "asked", "served", "held", "denied", "failed"},
                           upto : 0 .. Len(happened)]]
    /\ desk.docked \subseteq Tabs \cup {EventGraph} /\ desk.active \in desk.docked \cup {NoTab}
    /\ \A t \in Tabs : desk.panel[t].run \in Runs \cup {NoRun}
    /\ desk.opener \in Tabs \cup {NoTab} /\ desk.graph.tracked \in Tabs \cup {NoTab}
    /\ posts \subseteq Tabs \X Runs /\ unsaved \in BOOLEAN
    /\ saved.has \subseteq {"session", "local"} /\ saved.missed \subseteq {"session", "local"}

(* What is written: dockview's layout, with the panel the event graph was  *)
(* opened from, and the panels' slices; and what is read where none is.    *)
Layout(d) == [docked |-> d.docked, active |-> d.active, opener |-> d.opener, panel |-> d.panel,
              tracked |-> d.graph.tracked, run |-> d.graph.run]
Blank == [docked |-> {}, active |-> NoTab, opener |-> NoTab, panel |-> [t \in Tabs |-> NewPanel],
          tracked |-> NoTab, run |-> NoRun]

(* Of each storage: what it has, if anything; and, which no code reads,    *)
(* whether its last write threw.                                           *)
Storages == {"session", "local"}

WorkbenchInit ==
    /\ left \in Scenes
    /\ happened \in [1 .. MapThenSumSet(LAMBDA r : PerRun[r], History) -> History]
    /\ \A r \in History : Cardinality({i \in DOMAIN happened : happened[i] = r}) = PerRun[r]
    /\ begun = History /\ written = Len(happened) /\ away = DOMAIN happened /\ pushed = {}
    /\ stream = [open |-> left.outages = 0, buffer |-> <<>>, frame |-> FALSE]
    /\ kept = Nothing /\ query = [r \in Runs |-> Uncalled] /\ posts = {}
    /\ desk = [shown |-> TRUE, docked |-> {}, active |-> NoTab, opener |-> NoTab,
               panel |-> [t \in Tabs |-> NewPanel], graph |-> NewGraph]
    /\ saved = [layout |-> [s \in Storages |-> Blank], has |-> {}, missed |-> {}]
    /\ unsaved = TRUE

SpendsAll(what) ==
    /\ \A w \in what : left[w] > 0
    /\ left' = [w \in DOMAIN left |-> IF w \in what THEN left[w] - 1 ELSE left[w]]
Spends(what) == SpendsAll({what})

-----------------------------------------------------------------------------
(* The stream: what happens is sent to those connected when it happens.    *)
OfRun(r) == {i \in DOMAIN happened : happened[i] = r}
EndsRun(i) == Cardinality({j \in OfRun(happened[i]) : j <= i}) = PerRun[happened[i]]

(* source.onmessage: the event enters the buffer, a window, and a frame is *)
(* asked for unless one is awaited.                                        *)
Happens(r) ==
    LET i == Len(happened) + 1
        buffer == Append(stream.buffer, i)
        over == IF Len(buffer) > MaxBuffer THEN Len(buffer) - MaxBuffer ELSE 0
    IN
    /\ r \in begun /\ Cardinality(OfRun(r)) < PerRun[r] /\ Spends("news")
    /\ happened' = Append(happened, r)
    /\ IF stream.open
       THEN /\ stream' = [stream EXCEPT !.frame = TRUE,
                              !.buffer = SubSeq(buffer, over + 1, Len(buffer))]
            /\ pushed' = pushed \cup ToSet(SubSeq(buffer, 1, over)) /\ UNCHANGED away
       ELSE away' = away \cup {i} /\ UNCHANGED <<stream, pushed>>
    /\ UNCHANGED <<begun, written, kept, pageVars, posts, saved>>

StreamOpens ==
    /\ ~stream.open /\ stream' = [stream EXCEPT !.open = TRUE]
    /\ UNCHANGED <<left, happened, begun, written, kept, away, pushed, pageVars, posts, saved>>
StreamBreaks ==
    /\ stream.open /\ Spends("outages") /\ stream' = [stream EXCEPT !.open = FALSE]
    /\ UNCHANGED <<happened, begun, written, kept, away, pushed, pageVars, posts, saved>>

(* The elements of s that are in S, in the order of s.                     *)
Only(s, S) == FoldLeft(LAMBDA q, i : IF i \in S THEN Append(q, i) ELSE q, <<>>, s)

(* The reducer of events/batch: what is new is appended, and then the      *)
(* oldest are forgotten, with their entries in the lists of their runs.    *)
(* (A run of a forgotten event has such a list, or the loop would stop.)   *)
TakesIn(batch) ==
    LET fresh == Only(batch, DOMAIN happened \ kept.events)
        ids == kept.ids \o fresh
        over == IF Len(ids) > MaxEvents THEN Len(ids) - MaxEvents ELSE 0
        gone == ToSet(SubSeq(ids, 1, over))
    IN
    /\ kept' = [ids |-> SubSeq(ids, over + 1, Len(ids)),
                events |-> (kept.events \cup ToSet(fresh)) \ gone,
                ofRun |-> [r \in Runs |->
                    Only(kept.ofRun[r] \o Only(fresh, OfRun(r)), DOMAIN happened \ gone)]]
    /\ pushed' = (pushed \ ToSet(fresh)) \cup gone

Frame ==
    /\ stream.frame
    /\ TakesIn(stream.buffer)
    /\ stream' = [stream EXCEPT !.buffer = <<>>, !.frame = FALSE]
    /\ UNCHANGED <<left, happened, begun, written, away, pageVars, posts, saved>>

(* JsonlEventLog.recordEvent, at some time after the event is sent.        *)
LogWrites ==
    /\ written < Len(happened) /\ written' = written + 1
    /\ UNCHANGED <<left, happened, begun, stream, kept, away, pushed, pageVars, posts, saved>>

(* getAllRunEvents: the server reads the run's log, and later the page has *)
(* the answer.  A run without a log is an answer too, which is not ok.     *)
QueryIs(r, is, upto) ==
    /\ query' = [query EXCEPT ![r] = [is |-> is, upto |-> upto]]
    /\ UNCHANGED <<happened, begun, written, stream, away, desk, unsaved, posts, saved>>
Served(r) ==
    /\ query[r].is = "asked"
    /\ \/ QueryIs(r, "served", written)
       \/ OfRun(r) \cap (1 .. written) = {} /\ QueryIs(r, "denied", 0)
    /\ UNCHANGED <<left, kept, pushed>>
(* The mutant fills in only a run that has sent nothing yet.               *)
MutAnswer(r) ==
    IF kept.ofRun[r] = <<>> THEN Only([i \in 1 .. query[r].upto |-> i], OfRun(r)) ELSE <<>>
FullAnswer(r) == Only([i \in 1 .. query[r].upto |-> i], OfRun(r))
Filled(r) ==
    /\ query[r].is = "served" /\ QueryIs(r, "held", query[r].upto)
    /\ TakesIn(FullAnswer(r))
    /\ UNCHANGED left
QueryFails(r) ==
    /\ query[r].is = "asked" /\ QueryIs(r, "failed", 0)
    /\ Spends("faults") /\ UNCHANGED <<kept, pushed>>

(* The components that subscribe to the events of a run: each flow graph   *)
(* panel to its run, the event graph to the run it shows.                  *)
Watching(d) ==
    IF ~d.shown THEN {}
    ELSE {w \in {<<t, d.panel[t].run>> : t \in d.docked \cap Tabs}
                  \cup {<<t, d.graph.run>> : t \in d.docked \cap {EventGraph}} : w[2] # NoRun}
Forgets(r) ==
    /\ query[r].is \in {"held", "denied", "failed"} /\ \A w \in Watching(desk) : w[2] # r
    /\ QueryIs(r, "none", 0) /\ UNCHANGED <<left, kept, pushed>>

-----------------------------------------------------------------------------
(* useTrackedFlowGraphPanel: the event graph tracks the flow graph panel   *)
(* that is active, or was last, or at first the one it was opened from.    *)
(* When the hook renders it takes the run of that panel over if the pair   *)
(* of the two differs from the pair it last took, and keeps what it has if *)
(* there is no such panel (gone).                                          *)
Mounted(d) == d.shown /\ EventGraph \in d.docked
Tracks(d) == IF d.active \in Tabs THEN d.active
             ELSE IF d.graph.tracked # NoTab THEN d.graph.tracked ELSE d.opener
(* The mutant's pair leaves the run out.                                   *)
MutLiveKey(d, t) == <<t, NoRun>>
LiveKey(d, t) == IF t = NoTab THEN NoKey ELSE <<t, d.panel[t].run>>
Renders(d, t) ==
    IF t \in d.docked /\ LiveKey(d, t) # d.graph.key
    THEN [tracked |-> t, run |-> d.panel[t].run, key |-> LiveKey(d, t), gone |-> FALSE]
    ELSE [d.graph EXCEPT !.tracked = t, !.gone = t \notin d.docked]

(* The hook has to render when it mounts, when what it tracks is another   *)
(* panel, and when one of its selectors gives something else: the run of   *)
(* that panel and its replay.  That the panel is closed and opened again   *)
(* is nothing the hook listens to.                                         *)
Sees(d, t) == IF t = NoTab THEN <<NoRun, NoReplay>> ELSE <<d.panel[t].run, d.panel[t].replay>>
Follows(was, d) ==
    LET t == Tracks(d)
        sameAsBefore == Mounted(was) /\ t = d.graph.tracked /\ Sees(d, t) = Sees(was, t)
    IN  IF ~Mounted(d) THEN [d.graph EXCEPT !.key = NoKey, !.gone = FALSE]
        ELSE IF sameAsBefore THEN d.graph ELSE Renders(d, t)

(* A commit: a run somebody begins to watch is called for unless its call  *)
(* is in the cache, and a change is noted; before it the event graph       *)
(* follows.                                                                *)
CommitsTo(new) ==
    LET Begins(r) == \E w \in Watching(new) \ Watching(desk) : w[2] = r IN
    /\ desk' = new
    /\ query' = [r \in Runs |-> IF Begins(r) /\ query[r].is \in {"none", "failed"}
                                THEN [is |-> "asked", upto |-> 0] ELSE query[r]]
    /\ unsaved' = (new.shown /\ (unsaved \/ ~desk.shown \/ Layout(new) # Layout(desk)))
Commits(d) == CommitsTo([d EXCEPT !.graph = Follows(desk, d)])

(* The hook may render at any time for reasons of its own: an event of the *)
(* run it shows, new parameters, a state set to what it was.               *)
RendersAgain ==
    /\ Mounted(desk) /\ CommitsTo([desk EXCEPT !.graph = Renders(desk, desk.graph.tracked)])
    /\ UNCHANGED <<left, feedVars, posts, saved>>

Clicks(d) == desk.shown /\ Spends("clicks") /\ Commits(d) /\ UNCHANGED <<feedVars, posts, saved>>
SetPanel(t, panel) == [desk EXCEPT !.panel[t] = panel]
RunSet(t, r) == [desk.panel[t] EXCEPT !.run = r]

(* FlowExplorer: a run is selected in its panel's state, open or not.      *)
Opened(t) ==
    LET d == IF OpenedAs[t].kind = "run" THEN SetPanel(t, RunSet(t, OpenedAs[t].run)) ELSE desk
    IN  t \in left.offered /\ Clicks([d EXCEPT !.docked = @ \cup {t}, !.active = t])

(* A panel opened at a sim takes the sim's parent run when the sim is here *)
(* and it has no run.                                                      *)
SeedsFromSim(t) ==
    /\ OpenedAs[t].kind = "sim" /\ t \in desk.docked /\ desk.shown /\ desk.panel[t].run = NoRun
    /\ Commits(SetPanel(t, RunSet(t, OpenedAs[t].run)))
    /\ UNCHANGED <<left, feedVars, posts, saved>>

Focuses(t) == t \in desk.docked \ {desk.active} /\ Clicks([desk EXCEPT !.active = t])

OpensEventGraph ==
    /\ desk.active \in Tabs
    /\ Clicks([desk EXCEPT !.docked = @ \cup {EventGraph}, !.active = EventGraph,
                   !.opener = desk.active])

(* onDidRemovePanel: the panel's key leaves every slice; dockview makes    *)
(* another panel active.                                                   *)
Removes(t) ==
    \E a \in Tabs \cup {EventGraph, NoTab} :
        /\ t \in desk.docked
        /\ IF t # desk.active THEN a = desk.active
           ELSE IF desk.docked = {t} THEN a = NoTab ELSE a \in desk.docked \ {t}
        /\ LET d == [desk EXCEPT !.docked = @ \ {t}, !.active = a] IN
           Clicks(IF t = EventGraph THEN [d EXCEPT !.graph = NewGraph, !.opener = NoTab]
                                    ELSE [d EXCEPT !.panel[t] = NewPanel])

(* handleRun: the answer sets the run of the panel's state, wherever the   *)
(* panel has gone meanwhile.                                               *)
InFlight(t) == LET r == desk.panel[t].run IN
    r # NoRun /\ \A i \in ToSet(kept.ofRun[r]) : ~EndsRun(i)
RunDisabled(t) == InFlight(t) \/ desk.panel[t].draft \/ desk.panel[t].replay # NoReplay
RequestsRun(t, r) ==
    /\ desk.shown /\ t \in desk.docked /\ ~RunDisabled(t) /\ r \in Runs \ begun
    /\ Spends("clicks")
    /\ posts' = posts \cup {<<t, r>>} /\ begun' = begun \cup {r}
    /\ UNCHANGED <<happened, written, stream, kept, away, pushed, pageVars, saved>>
RunSubmitted(t, r) ==
    /\ <<t, r>> \in posts /\ posts' = posts \ {<<t, r>>}
    /\ Commits(SetPanel(t, RunSet(t, r)))
    /\ UNCHANGED <<left, feedVars, saved>>
RunRefused(t, r) ==
    /\ <<t, r>> \in posts /\ posts' = posts \ {<<t, r>>} /\ Spends("faults")
    /\ UNCHANGED <<feedVars, pageVars, saved>>

-----------------------------------------------------------------------------
(* The two modes of a flow graph panel.                                    *)
InPanel(t, panel) ==
    /\ desk.shown /\ t \in desk.docked /\ Commits(SetPanel(t, panel))
    /\ UNCHANGED <<feedVars, posts, saved>>
ReplayIs(t, status, cut) ==
    InPanel(t, [desk.panel[t] EXCEPT !.replay = [status |-> status, cut |-> cut]])

(* A replay starts at the time of the first event of the list, and its     *)
(* clock ends it at the time of the last one.                              *)
ReplayToggled(t) ==
    LET p == desk.panel[t] IN
    /\ Spends("modes") /\ p.run # NoRun /\ ~InFlight(t) /\ ~p.draft
    /\ CASE p.replay.status = "idle"    -> ReplayIs(t, "playing", Head(kept.ofRun[p.run]))
         [] p.replay.status = "playing" -> ReplayIs(t, "paused", p.replay.cut)
         [] p.replay.status = "paused"  -> ReplayIs(t, "playing", p.replay.cut)
ReplayTicks(t) ==
    LET p == desk.panel[t]
        times == IF p.run = NoRun THEN <<>> ELSE kept.ofRun[p.run]
    IN  \E next \in p.replay.cut .. Len(happened) :
            /\ p.replay.status = "playing" /\ times # <<>> /\ UNCHANGED left
            /\ IF next >= times[Len(times)] THEN ReplayIs(t, "idle", 0)
               ELSE /\ \E i \in ToSet(times) : i > p.replay.cut /\ i <= next
                    /\ ReplayIs(t, "playing", next)
ReplayEnded(t) ==
    /\ desk.panel[t].replay # NoReplay /\ Spends("modes") /\ ReplayIs(t, "idle", 0)

DraftStarted(t) ==
    /\ Spends("modes") /\ OpenedAs[t].kind # "sim"
    /\ desk.panel[t].run # NoRun /\ desk.panel[t].replay = NoReplay
    /\ InPanel(t, [desk.panel[t] EXCEPT !.draft = TRUE])
DraftEnded(t) ==
    /\ desk.panel[t].draft /\ Spends("modes")
    /\ InPanel(t, [desk.panel[t] EXCEPT !.draft = FALSE])

-----------------------------------------------------------------------------
(* Storage: written when nothing has changed for a while, and at leaving   *)
(* if something has.  Each of the two storages is written on its own: one  *)
(* that throws keeps what it had, and the change is written off all the    *)
(* same.  ok: those that do not throw.                                     *)
Written(ok) ==
    [layout |-> [s \in Storages |-> IF s \in ok THEN Layout(desk) ELSE saved.layout[s]],
     has |-> saved.has \cup ok, missed |-> Storages \ ok]
Fails(ok) == IF ok = Storages THEN {} ELSE {"faults"}
Saves ==
    /\ desk.shown /\ unsaved
    /\ \E ok \in SUBSET Storages : SpendsAll(Fails(ok)) /\ saved' = Written(ok)
    /\ unsaved' = FALSE /\ UNCHANGED <<feedVars, desk, query, posts>>
Flushed(ok) == IF desk.shown /\ unsaved THEN Written(ok) ELSE saved

(* A read takes the tab's own storage first, whichever is newer, and skips *)
(* one that throws.                                                        *)
Loaded(s, ok) ==
    IF "session" \in s.has \cap ok THEN s.layout["session"]
    ELSE IF "local" \in s.has \cap ok THEN s.layout["local"] ELSE Blank

Leaves ==
    /\ desk.shown
    /\ \E ok \in SUBSET Storages : SpendsAll({"visits"} \cup Fails(ok)) /\ saved' = Flushed(ok)
    /\ Commits([desk EXCEPT !.shown = FALSE, !.docked = {}, !.active = NoTab, !.opener = NoTab])
    /\ UNCHANGED <<feedVars, posts>>
ComesBack ==
    /\ ~desk.shown
    /\ \E ok \in SUBSET Storages :
        LET dock == Loaded(saved, ok) IN
        /\ SpendsAll(Fails(ok))
        /\ Commits([desk EXCEPT !.shown = TRUE, !.docked = dock.docked, !.active = dock.active,
                       !.opener = dock.opener])
    /\ UNCHANGED <<feedVars, posts, saved>>

(* A reload, after pagehide or after a crash, which flushes nothing.  The  *)
(* slices are read when the store is made, the dock when the page shows it.*)
Reloaded(s, slices, dock) ==
    LET shown == desk.shown
        d == [shown |-> shown, panel |-> slices.panel,
              docked |-> IF shown THEN dock.docked ELSE {},
              active |-> IF shown THEN dock.active ELSE NoTab,
              opener |-> IF shown THEN dock.opener ELSE NoTab,
              graph |-> [NewGraph EXCEPT !.tracked = slices.tracked, !.run = slices.run]]
        new == [d EXCEPT !.graph = Follows([d EXCEPT !.docked = {}], d)]
    IN  /\ saved' = s /\ desk' = new /\ unsaved' = shown
        /\ query' = [r \in Runs |-> IF \E w \in Watching(new) : w[2] = r
                                    THEN [is |-> "asked", upto |-> 0] ELSE Uncalled]
Reloads ==
    /\ left.visits > 0
    /\ \E ok, first, second \in SUBSET Storages :
        /\ SpendsAll({"visits"} \cup Fails(ok \cap first \cap second))
        /\ \E s \in {Flushed(ok), saved} : Reloaded(s, Loaded(s, first), Loaded(s, second))
    /\ stream' = [open |-> FALSE, buffer |-> <<>>, frame |-> FALSE]
    /\ kept' = Nothing /\ away' = DOMAIN happened /\ pushed' = {} /\ posts' = {}
    /\ UNCHANGED <<happened, begun, written>>

WorkbenchNext ==
    \/ StreamOpens \/ StreamBreaks \/ Frame \/ LogWrites \/ OpensEventGraph
    \/ RendersAgain \/ Saves \/ Leaves \/ ComesBack \/ Reloads
    \/ \E r \in Runs : Happens(r) \/ Served(r) \/ Filled(r) \/ QueryFails(r) \/ Forgets(r)
    \/ \E t \in Tabs \cup {EventGraph} : Focuses(t) \/ Removes(t)
    \/ \E t \in Tabs :
        \/ Opened(t) \/ SeedsFromSim(t)
        \/ ReplayToggled(t) \/ ReplayTicks(t) \/ ReplayEnded(t) \/ DraftStarted(t) \/ DraftEnded(t)
        \/ \E r \in Runs : RequestsRun(t, r) \/ RunSubmitted(t, r) \/ RunRefused(t, r)
WorkbenchSpec == WorkbenchInit /\ [][WorkbenchNext]_workbenchVars

-----------------------------------------------------------------------------
(* Events come over the stream and in answers, in any order and more than  *)
(* once.  The page keeps each at most once, under its run and under its    *)
(* window's limit; an event it waits to take in has its frame; and once a  *)
(* run's events have been filled in, each of them is kept or waits unless  *)
(* a window pushed it out, or it was neither sent to the page nor in the   *)
(* log that answered.                                                      *)
EventsAreAccounted ==
    /\ \A i, j \in DOMAIN kept.ids : kept.ids[i] = kept.ids[j] => i = j
    /\ Len(kept.ids) <= MaxEvents /\ kept.events = ToSet(kept.ids)
    /\ \A r \in Runs : kept.ofRun[r] = Only(kept.ids, OfRun(r))
    /\ stream.buffer # <<>> => stream.frame
    /\ \A r \in Runs : query[r].is = "held" =>
          OfRun(r) \subseteq kept.events \cup ToSet(stream.buffer) \cup pushed
                              \cup {i \in away : i > query[r].upto}

(* Panels are closed and opened again, also while a request of theirs is   *)
(* unanswered, storages fail, the page is left and reloaded: no panel      *)
(* replays and drafts at once, or does either without a run; the event     *)
(* graph shows the run of the panel it tracks, if that panel is there and  *)
(* was when the hook last rendered (use-tracked-flow-graph-panel.ts:113),  *)
(* and what it has from a panel is from the one it tracks; and unless a    *)
(* write is due each storage has all there is, but one whose last write    *)
(* threw (dock-persistence.ts:193-202).                                    *)
PanelsAgree ==
    /\ \A t \in Tabs : LET p == desk.panel[t] IN
          /\ ~(p.draft /\ p.replay # NoReplay)
          /\ p.draft \/ p.replay # NoReplay => p.run # NoRun
    /\ LET g == desk.graph IN
          /\ Mounted(desk) /\ g.tracked \in desk.docked /\ ~g.gone =>
                g.run = desk.panel[g.tracked].run
          /\ g.key # NoKey => g.key = <<g.tracked, g.run>>
    /\ desk.shown /\ ~unsaved =>
          \A s \in Storages \ saved.missed : s \in saved.has /\ saved.layout[s] = Layout(desk)
=============================================================================
