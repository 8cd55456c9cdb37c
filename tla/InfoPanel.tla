------------------------------ MODULE InfoPanel ------------------------------
(***************************************************************************)
(* What a tab shows of the information of its register                     *)
(* (gui/cash_session_widget.py, gui/widgets/info_section_widget.py): a     *)
(* group for each kind of sections, with a placeholder until something     *)
(* comes, the rows and the note of each section, and the problems found.   *)
(* Sections come one by one, some twice; a collection is broken off for    *)
(* the next one.  How collections and connections overlap are the modules  *)
(* InfoCollector and SessionTab.                                           *)
(***************************************************************************)
EXTENDS Naturals, FiniteSets

CONSTANTS
  Cashes,      \* registers
  FirstCash,   \* that of the tab at first
  CashTypes,   \* cash types
  Features,    \* the sections a cash type has
  GatedBy,     \* the sections that are shown only if the type has them
  GroupOf,     \* section_groups(): the group of each section
  Placeholders, \* _SKELETON_KEYS: the groups that are made
  Loads        \* bound: collections

ASSUME InfoPanelAssumption ==
  /\ FirstCash \in Cashes /\ "cash_type" \in DOMAIN GroupOf
  /\ GatedBy \subseteq DOMAIN GroupOf \ {"cash_type"}
  /\ Features \in [CashTypes -> SUBSET GatedBy] /\ Loads \in Nat \ {0}
  /\ \A s \in DOMAIN GroupOf : GroupOf[s] \in Placeholders
  /\ CashTypes \cap {"none", "skipped", "failed", "unknown"} = {}

VARIABLES
  infoTab,    \* register, is the session connected, _info_loaded
  cashType,   \* _cash_type of the widget, cash_type of the session
  collection, \* where it is, forced; its snapshot; the sections to repeat
  infoCache,  \* the snapshots the collector keeps
  infoPanel,  \* group widgets, their placeholders, rows, notes, the problems
  loads       \* collections so far
infoPanelVars == <<infoTab, cashType, collection, infoCache, infoPanel, loads>>

PanelSections == DOMAIN GroupOf
Rest == PanelSections \ {"cash_type"}
TypeNames == CashTypes \cup {"unknown"}
Statuses == {"PENDING", "COMPLETE", "SKIPPED", "ERROR", "TIMEOUT"}
Snapshots == [type: TypeNames, of: [PanelSections -> Statuses]]
PanelNotes == {"none", "skipped", "failed"} \cup CashTypes

EmptySnapshot == [type |-> "unknown", of |-> [s \in PanelSections |-> "PENDING"]]
NoCollection == [at |-> "none", force |-> FALSE, snap |-> EmptySnapshot, repeat |-> {}]
NoSections == [groups |-> {}, waiting |-> {}, rows |-> {},
               notes |-> [s \in PanelSections |-> "none"], problems |-> 0]

InfoPanelTypeOK ==
  /\ infoTab \in [at: Cashes, up: BOOLEAN, loaded: BOOLEAN]
  /\ cashType \in [shown: TypeNames, session: TypeNames]
  /\ collection \in [at: {"none", "created", "type", "rest", "repeat"}, force: BOOLEAN,
                     snap: Snapshots, repeat: SUBSET Rest]
  /\ infoCache \in [Cashes -> Snapshots]
  /\ infoPanel \in [groups: SUBSET Placeholders, waiting: SUBSET Placeholders,
                    rows: SUBSET PanelSections, notes: [PanelSections -> PanelNotes],
                    problems: 0..Loads]
  /\ loads \in 0..Loads

InfoPanelInit ==
  /\ infoTab = [at |-> FirstCash, up |-> FALSE, loaded |-> FALSE]
  /\ cashType = [shown |-> "unknown", session |-> "unknown"]
  /\ collection = NoCollection /\ infoPanel = NoSections /\ loads = 0
  /\ infoCache = [c \in Cashes |-> EmptySnapshot]

Cached == infoCache[infoTab.at] # EmptySnapshot

-----------------------------------------------------------------------------
(* The widgets of the groups *)

\* _show_skeletons
Skeletons == [NoSections EXCEPT !.groups = Placeholders, !.waiting = Placeholders]

\* A section comes to a group that is there: its placeholder goes.
Comes(p, s) == [p EXCEPT !.waiting = @ \ {GroupOf[s]}]

AddItems(p, s) ==
  [Comes(p, s) EXCEPT !.rows = @ \cup {s}, !.notes[s] = "none"]

\* The text takes the place of the rows of its section, not of its group.
AddNote(p, s, text) ==
  [Comes(p, s) EXCEPT !.rows = @ \ {s}, !.notes[s] = text]

AddError(p, s) == AddNote(p, s, "failed")

\* _feature_gate: nothing is said of a type that is not known.
FeatureGate(s, t) ==
  s \in GatedBy => t = "unknown" \/ s \in Features[t]

\* _render_section, with the type that is known at that moment.
Render(p, s, status, t) ==
  IF GroupOf[s] \notin p.groups THEN p
  ELSE IF status \in {"TIMEOUT", "ERROR"} THEN AddError(p, s)
  ELSE IF status = "SKIPPED" THEN AddNote(p, s, "skipped")
  ELSE IF ~FeatureGate(s, t) THEN AddNote(p, s, t)
  ELSE AddItems(p, s)

-----------------------------------------------------------------------------
(* load_info *)

NewLoad == loads < Loads /\ loads' = loads + 1

\* The collection that runs is cancelled: nothing of it is shown any more.
StartLoad(force) ==
  /\ NewLoad
  /\ collection' = [NoCollection EXCEPT !.at = "created", !.force = force]

\* The tab is connected, its register's type is looked for and remembered in
\* the session, then load_info, which forces nothing.
ConnectTab ==
  /\ ~infoTab.up /\ ~infoTab.loaded /\ collection.at = "none"
  /\ infoTab' = [infoTab EXCEPT !.up = TRUE]
  /\ \E t \in TypeNames : cashType' = [cashType EXCEPT !.session = t]
  /\ StartLoad(FALSE)
  /\ UNCHANGED <<infoCache, infoPanel>>

LosesLink ==
  /\ infoTab.up /\ infoTab' = [infoTab EXCEPT !.up = FALSE]
  /\ UNCHANGED <<cashType, collection, infoCache, infoPanel, loads>>

\* load_info(force=True), after a fix or another type: without a connection the
\* button is shown instead of everything.
ForceLoad ==
  IF infoTab.up THEN StartLoad(TRUE) /\ UNCHANGED infoPanel
  ELSE /\ collection' = NoCollection /\ infoPanel' = NoSections /\ UNCHANGED loads

ReloadInfo ==
  /\ infoTab.loaded \/ collection.at # "none"
  /\ ForceLoad
  /\ UNCHANGED <<infoTab, cashType, infoCache>>

SelectCashType ==
  /\ infoTab.loaded \/ collection.at # "none"
  /\ \E t \in CashTypes : cashType' = [cashType EXCEPT !.session = t]
  /\ ForceLoad
  /\ UNCHANGED <<infoTab, infoCache>>

\* maybe_refresh_in_background
RefreshInBackground ==
  /\ collection.at = "none" /\ infoTab.loaded /\ infoTab.up
  /\ StartLoad(TRUE)
  /\ infoTab' = [infoTab EXCEPT !.loaded = FALSE]
  /\ UNCHANGED <<cashType, infoCache, infoPanel>>

\* reconnect_to, to the same register or to another one; the type the widget
\* knows stays.
ReconnectTo ==
  /\ \E c \in Cashes :
       /\ infoTab' = [at |-> c, up |-> FALSE, loaded |-> FALSE]
       /\ infoCache' = [infoCache EXCEPT ![c] = EmptySnapshot]
  /\ cashType' = [cashType EXCEPT !.session = "unknown"]
  /\ collection' = NoCollection /\ infoPanel' = NoSections
  /\ UNCHANGED loads

\* _do_reconnect, the button in place of the sections: the snapshots are kept.
DoReconnect ==
  /\ ~infoTab.up /\ collection.at = "none" /\ infoPanel.groups = {}
  /\ infoTab.loaded /\ infoTab' = [infoTab EXCEPT !.loaded = FALSE]
  /\ infoPanel' = NoSections
  /\ UNCHANGED <<cashType, collection, infoCache, loads>>

-----------------------------------------------------------------------------
(* _collect_info *)

\* The type the widget knows once the section of the type is shown.
Known(snap) == [cashType EXCEPT !.shown = snap.type]

\* _check_problems: the old list goes before it is known if there is a new one.
CheckProblems(p) == {[p EXCEPT !.problems = found] : found \in {0, loads}}

\* The end of a collection: the problems of its snapshot, if there are any.
Collected(snap, p) ==
  /\ infoTab' = [infoTab EXCEPT !.loaded = TRUE]
  /\ collection' = [NoCollection EXCEPT !.snap = snap]
  /\ cashType' = Known(snap)
  /\ infoPanel' \in CheckProblems(p)

\* A snapshot in the cache is rendered section by section, that of the type first.
TakeCached ==
  /\ collection.at = "created" /\ ~collection.force /\ Cached
  /\ LET snap == infoCache[infoTab.at]
         ready == Skeletons
         Of(s) == Render(ready, s, snap.of[s], snap.type) IN
     Collected(snap, [ready EXCEPT
       !.waiting = {g \in @ : \A s \in PanelSections : g \in Of(s).waiting},
       !.rows = {s \in PanelSections : s \in Of(s).rows},
       !.notes = [s \in PanelSections |-> Of(s).notes[s]]])
  /\ UNCHANGED <<infoCache, loads>>

\* A snapshot in the cache may be too old.
StartCollecting ==
  /\ collection.at = "created"
  /\ collection' = [collection EXCEPT !.at = "type"]
  /\ infoPanel' = Skeletons
  /\ UNCHANGED <<infoTab, cashType, infoCache, loads>>

\* The first wave: CashTypeCollector answers with the type of the session, or
\* looks for it; a failure is a type that is not known.
TypeComes ==
  /\ collection.at = "type"
  /\ \E t \in (IF cashType.session # "unknown" THEN {cashType.session} ELSE TypeNames) :
       LET snap == [collection.snap EXCEPT !.type = t, !.of["cash_type"] = "COMPLETE"] IN
       /\ cashType' = [shown |-> t, session |-> t]
       /\ collection' = [collection EXCEPT !.at = "rest", !.snap = snap]
       /\ infoPanel' = Render(infoPanel, "cash_type", "COMPLETE", t)
  /\ UNCHANGED <<infoTab, infoCache, loads>>

SectionIs(s, status) ==
  /\ infoPanel' = Render(infoPanel, s, status, cashType.shown)
  /\ UNCHANGED <<infoTab, cashType, infoCache, loads>>

SectionComes ==
  /\ collection.at = "rest"
  /\ \E s \in Rest, status \in Statuses \ {"PENDING"} :
       /\ collection.snap.of[s] = "PENDING" /\ SectionIs(s, status)
       /\ collection' = [collection EXCEPT
            !.snap.of[s] = status,
            !.repeat = IF status = "TIMEOUT" THEN @ \cup {s} ELSE @]

\* What timed out is asked again, one after the other; a second timeout leaves
\* the first one as it is.
SectionComesAgain ==
  /\ collection.at = "rest" /\ \A s \in Rest : collection.snap.of[s] # "PENDING"
  /\ \E s \in collection.repeat, status \in Statuses \ {"PENDING"} :
       IF status = "TIMEOUT"
       THEN /\ collection' = [collection EXCEPT !.repeat = @ \ {s}]
            /\ UNCHANGED <<infoTab, cashType, infoCache, infoPanel, loads>>
       ELSE /\ SectionIs(s, status)
            /\ collection' = [collection EXCEPT !.snap.of[s] = status, !.repeat = @ \ {s}]

\* CashTypeCollector swallows every failure, so its section is COMPLETE and any
\* snapshot passes for usable: it is kept.
CollectionEnds ==
  /\ collection.at = "rest" /\ collection.repeat = {}
  /\ \A s \in Rest : collection.snap.of[s] # "PENDING"
  /\ Collected(collection.snap, infoPanel)
  /\ infoCache' = [infoCache EXCEPT ![infoTab.at] = collection.snap]
  /\ UNCHANGED loads

-----------------------------------------------------------------------------
InfoPanelNext ==
  \/ ConnectTab \/ LosesLink \/ ReloadInfo \/ SelectCashType \/ RefreshInBackground
  \/ ReconnectTo \/ DoReconnect
  \/ TakeCached \/ StartCollecting \/ TypeComes \/ SectionComes \/ SectionComesAgain
  \/ CollectionEnds

InfoPanelSpec == InfoPanelInit /\ [][InfoPanelNext]_infoPanelVars

-----------------------------------------------------------------------------
\* A panel that is settled shows of each section what its snapshot ended with,
\* and only that: either rows or one note, and "not supported" only of the type
\* the same collection found.  Problems are those of the collection shown.
PanelIsCollected ==
  infoTab.loaded /\ collection.at = "none" /\ infoPanel.groups # {} =>
    /\ infoPanel.problems \in {0, loads}
    /\ \A s \in PanelSections :
         LET status == collection.snap.of[s]
             note == infoPanel.notes[s] IN
         /\ (s \in infoPanel.rows) <=> (note = "none")
         /\ note = "failed" <=> status \in {"TIMEOUT", "ERROR"}
         /\ note = "skipped" <=> status = "SKIPPED"
         /\ note \in CashTypes => note = collection.snap.type /\ s \notin Features[note]

\* "The group stays with its placeholder for ever" was the defect _feature_gate
\* and add_note were written against: a settled panel has no placeholder.
NothingLoads == infoTab.loaded /\ collection.at = "none" => infoPanel.waiting = {}

\* "The panel keeps the old data while the collection in the background replaces
\* the sections one by one" (maybe_refresh_in_background).
OldDataStays ==
  [][collection.at = "created" /\ collection'.at = "type" => infoPanel'.rows = infoPanel.rows]_infoPanelVars
=============================================================================
