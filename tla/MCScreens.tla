------------------------------ MODULE MCScreens ------------------------------
(***************************************************************************)
(* What clients see of the screen, in one instance for TLC: the deltas of  *)
(* the interaction graph for two clients, the shape of the graph for many  *)
(* desktops, and the frame stream for clients that name the frame they     *)
(* hold and for one that does not. Graph and stream share no variable, so  *)
(* a behaviour moves one of them, as `part' says.                          *)
(***************************************************************************)
EXTENDS InteractionGraph

CONSTANTS
    Parts,          \* which parts move
    Client,         \* the only one of the stream that is asked without naming a frame
    Screens, KeptFrames, KeptDeltas, KFrames,   \* of the stream with many clients
    KeptAlone, KeptDeltasAlone, KFramesAlone,      \* and of the one with one
    KTime

VARIABLES
    part,
    snapshot, frameCounter, latest, pc, frames, history, transitions, frameHistory, views, served

streamVars == <<snapshot, frameCounter, latest, pc, frames, history, transitions, frameHistory, views, served>>
screensVars == <<part, vars, streamVars>>

-----------------------------------------------------------------------------
\* One window and what may become of it.
Element(id, parent, depth, type, label, automation) ==
    [id |-> id, parent |-> parent, depth |-> depth, type |-> type, label |-> label, automation |-> automation,
     shortcut |-> "", offscreen |-> FALSE, enabled |-> TRUE, collapsed |-> FALSE]

Window == Element(1, 0, 0, "window", "main", "")
Menu == [Element(2, 1, 1, "menu", "file", "mnu") EXCEPT !.shortcut = "Alt+F"]
Item == [Element(3, 2, 2, "menu_item", "save", "itm") EXCEPT !.offscreen = TRUE]
Button == [Element(4, 1, 1, "button", "save", "btn") EXCEPT !.shortcut = "Ctrl+S"]
Twin == [Button EXCEPT !.id = 5, !.shortcut = ""]
Unnamed == Element(6, 1, 1, "text_box", "", "")

\* What becomes of the menu with its item, of what stands beside it, and of their order.
Menus == {<<m, i>> : m \in {Menu, [Menu EXCEPT !.collapsed = TRUE]},
                     i \in {Item, [Item EXCEPT !.offscreen = FALSE], [Item EXCEPT !.enabled = FALSE]}}
Besides == {<<Button>>, <<Button, Twin>>, <<[Twin EXCEPT !.enabled = FALSE], Button, Unnamed>>,
            <<[Button EXCEPT !.type = "list_item", !.label = "menu"]>>}
AllDesktops ==
    {<<Window>> \o m \o b : m \in Menus, b \in Besides}
    \cup {<<Window>> \o b \o m : m \in Menus, b \in Besides}
    \cup {<<Window>> \o m \o <<[Button EXCEPT !.parent = 2, !.depth = 2]>> : m \in Menus}

FewDesktops == {
    <<Window, Menu, Item, Button>>,
    <<Window, Twin, [Menu EXCEPT !.collapsed = TRUE], [Item EXCEPT !.offscreen = FALSE]>>,
    <<[Window EXCEPT !.offscreen = TRUE], Button, Twin>>}

EveryDesktop == AllDesktops \cup FewDesktops

\* An empty screen, one element, and two with another look of the first.
SomeScreens == {<<>>, <<"plain">>, <<"bold", "plain">>}

-----------------------------------------------------------------------------
Stream == INSTANCE ScreenStream WITH
    NamesBase <- TRUE, MaxHistory <- KeptFrames, MaxFrames <- KeptDeltas, held <- frames
Single == INSTANCE ScreenStream WITH
    Clients <- {Client}, NamesBase <- FALSE, MaxHistory <- KeptAlone, MaxFrames <- KeptDeltasAlone,
    KFrames <- KFramesAlone, held <- frames

\* The temporal history keeps more than one frame, the one for deltas at least one.
ASSUME StreamsAssumption == Stream!StreamAssumption /\ Single!StreamAssumption

ScreensInit ==
    /\ part \in Parts
    /\ Init
    /\ IF part = "single" THEN Single!Init ELSE Stream!Init
    /\ part = "deltas" => desktop \in FewDesktops
    /\ part \notin {"deltas", "shape"} => desktop = <<Window, Menu, Item, Button>>
    /\ part \notin {"stream", "single"} => snapshot.screen = <<>>

\* Two clients while one of a few desktops follows the other; any desktop after any other.
DeltasNext == Next /\ desktop' \in FewDesktops
ShapeNext == Observe

ScreensNext ==
    \/ part = "deltas" /\ DeltasNext /\ UNCHANGED <<part, streamVars>>
    \/ part = "shape" /\ ShapeNext /\ UNCHANGED <<part, streamVars>>
    \/ part = "stream" /\ Stream!Next /\ UNCHANGED <<part, vars>>
    \/ part = "single" /\ Single!Next /\ UNCHANGED <<part, vars>>

ScreensSpec == ScreensInit /\ [][ScreensNext]_screensVars

-----------------------------------------------------------------------------
\* Whoever applies the deltas of /interaction-graph holds the graph that its last answer was about
\* (IntentApiServer, ComputeDelta).
GraphDeltasAddUp == part = "deltas" => DeltasAddUp

\* An element keeps its node from one desktop to the next (KeepsIdentity); every element has one,
\* parents and children name each other, and every plan of a node can be followed
\* (InteractionGraphBuilder).
NodesAreKept ==
    /\ [][part = "shape" => KeepsIdentity]_vars
    /\ [](part = "shape" => OneNodePerElement /\ ParentsAgree /\ PlansCanBeFollowed)

\* Whoever applies the deltas of /stream/frame knows the screen of the frame it was answered with,
\* and what the histories say of transitions, repetitions and skipped frames is so.
FrameDeltasAddUp ==
    /\ part = "stream" => Stream!TypeOK /\ Stream!DeltasAddUp /\ Stream!SkipsAreReal
    /\ part = "single" => /\ Single!TypeOK /\ Single!DeltasAddUp
                          /\ Single!TransitionsFollowHistory /\ Single!OnlyRepetitionsAreUnchanged
=============================================================================
