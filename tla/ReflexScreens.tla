--------------------------- MODULE ReflexScreens ---------------------------
(***************************************************************************)
(* Screens and goals for the instances of the reflex modules.              *)
(***************************************************************************)
EXTENDS Integers

Cursor(x) == [source |-> "cursor", box |-> <<x - 12, x + 12>>, label |-> 99, words |-> {"cursor"}]
Element(textLike, confidence, box, label) ==
    [source |-> "screen", textLike |-> textLike, focused |-> FALSE, confidence |-> confidence, box |-> box,
     label |-> label, words |-> {"open"}]
Node(shown, class, executable, confidence, box, label, words) ==
    [source |-> "uig", shown |-> shown, class |-> class, executable |-> executable, confidence |-> confidence,
     box |-> box, label |-> label, words |-> words]
Visual(textLike, edge, large, box) ==
    [source |-> "visual", textLike |-> textLike, edge |-> edge, large |-> large, confidence |-> 80, box |-> box,
     label |-> 98, words |-> {"shape"}]

AsFunction(items) == [id \in {item[1] : item \in items} |-> (CHOOSE item \in items : item[1] = id)[2]]

\* A form: a cursor, a button known twice, a menu and a hidden node.
Form(x) == AsFunction({<<1, Cursor(x)>>, <<2, Element(FALSE, 60, <<0, 40>>, 103)>>,
                       <<4, Node(TRUE, "other", TRUE, 90, <<0, 40>>, 101, {"save"})>>,
                       <<5, Node(TRUE, "menu", TRUE, 50, <<0, 200>>, 102, {"file"})>>})
Hiding(x) == AsFunction({<<1, Cursor(x)>>, <<4, Node(FALSE, "other", TRUE, 90, <<0, 40>>, 101, {"save"})>>,
                         <<5, Node(TRUE, "menu", TRUE, 50, <<0, 200>>, 102, {"file"})>>})
\* A picture: what is found by its looks, side by side and overlapping.
Picture(x) == AsFunction({<<1, Cursor(x)>>, <<6, Visual(FALSE, 20, FALSE, <<30, 90>>)>>, <<7, Visual(FALSE, 20, TRUE, <<0, 60>>)>>})
Moving(x) == AsFunction({<<1, Cursor(x)>>, <<6, Visual(FALSE, 20, FALSE, <<20, 120>>)>>,
                         <<7, Visual(FALSE, 95, TRUE, <<0, 100>>)>>, <<8, Visual(TRUE, 0, FALSE, <<-20, 80>>)>>})

\* A window that only shows panes, which move.
Panes(x) == AsFunction({<<1, Cursor(20)>>, <<7, Visual(FALSE, 20, TRUE, <<x, x + 100>>)>>})

Wanted(text, target, preferred) ==
    [active |-> TRUE, text |-> text, words |-> text \cup target, target |-> target, preferred |-> preferred]
=============================================================================
