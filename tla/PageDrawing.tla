----------------------------- MODULE PageDrawing -----------------------------
(***************************************************************************)
(* Drawing a page of the details mods (p3-ui's page.rs, table.rs and       *)
(* cell.rs).                                                               *)
(*                                                                         *)
(* The renderer has one colour, one text mode and one font, which belong   *)
(* to whoever set them last.  The game draws its window first and leaves   *)
(* them as it likes; a page then puts them into a state of its own and     *)
(* draws calls in any order, each of which changes some of it and has to   *)
(* put it back.  Rich text is drawn by a pass of the game that brings its  *)
(* own font and alignment, when the window has a layout object for it.     *)
(*                                                                         *)
(* Places on the page are left out, except for the row a call is at: rows, *)
(* lines and headings below the last one are not drawn.                    *)
(***************************************************************************)
EXTENDS Naturals, Sequences

CONSTANTS
    Columns,     \* the alignments of a table's columns
    Color,       \* the colour of coloured cells and rows; pages are "black"
    LastRow      \* rows on the page

Aligns == {"Left", "Center", "Right"}

ASSUME DrawingAssumption == Columns \in Seq(Aligns) /\ LastRow \in Nat

VARIABLES
    drawing,     \* a page's draw is under way
    renderer,    \* its colour, text mode and font
    layout,      \* the window has a text layout object
    row,         \* the next row
    ink          \* what the last call drew: the texts, each as it came out and as it was meant

drawVars == <<drawing, renderer, layout, row, ink>>

Renderers == [color : {"black", "white", Color}, mode : Aligns, font : {"normal", "header"}]

reset_state == [color |-> "black", mode |-> "Right", font |-> "normal"]

-----------------------------------------------------------------------------
(***************************************************************************)
(* Cells; a coloured cell in a coloured row keeps its own colour.  A       *)
(* header has no rich text: the pass would leave the body font behind.     *)
(***************************************************************************)
Cells == [kind : {"Text", "Rich", "Graphic"}, color : {"black", Color}] \cup {[kind |-> "Empty", color |-> "black"]}
HeaderCells == {c \in Cells : c.kind # "Rich" /\ c.color = "black"}
Colored(color, cell) == IF cell.color = "black" THEN [cell EXCEPT !.color = color] ELSE cell

\* What is drawn so far: the renderer and the texts of the call.
draw_text(d, align, meant) ==
    LET came == IF align # "Right" THEN [d.renderer EXCEPT !.mode = align] ELSE d.renderer
    IN  [renderer |-> IF align # "Right" THEN [d.renderer EXCEPT !.mode = "Right"] ELSE d.renderer,
         ink |-> Append(d.ink, [came |-> came, meant |-> meant])]

set_constant_color(d, color) == [d EXCEPT !.renderer.color = color]

\* Faulty variant: nothing is done about the colour the blit leaves.
draw_cellBlitting(d, align, cell, font) ==
    LET meant == [color |-> cell.color, mode |-> align, font |-> font]
        colored == IF cell.color # "black" THEN set_constant_color(d, cell.color) ELSE d
        text == draw_text(colored, align, meant)
    IN  CASE cell.kind = "Empty" -> d
          [] cell.kind = "Graphic" -> set_constant_color(d, "white")
          [] cell.kind = "Rich" /\ layout ->
                [renderer |-> reset_state, ink |-> Append(d.ink, [came |-> [meant EXCEPT !.font = "normal"], meant |-> meant])]
          [] OTHER -> IF cell.color # "black" THEN set_constant_color(text, "black") ELSE text

\* draw_cell_colored: text in the colour it is to have, rich text through the pass or, without
\* a layout, as text; a blit leaves the colour white, which is put right at once.
draw_cell(d, align, cell, font) ==
    LET meant == [color |-> cell.color, mode |-> align, font |-> font]
        colored == IF cell.color # "black" THEN set_constant_color(d, cell.color) ELSE d
        text == draw_text(colored, align, meant)
    IN  CASE cell.kind = "Empty" -> d
          [] cell.kind = "Graphic" -> set_constant_color(d, "black")
          [] cell.kind = "Rich" /\ layout ->
                [renderer |-> reset_state, ink |-> Append(d.ink, [came |-> [meant EXCEPT !.font = "normal"], meant |-> meant])]
          [] OTHER -> IF cell.color # "black" THEN set_constant_color(text, "black") ELSE text

\* Table::draw_cells, as many as there are columns.
draw_cells(d, cells, font) ==
    LET drawn[n \in 0 .. Len(Columns)] ==
            IF n = 0 THEN d ELSE draw_cell(drawn[n - 1], Columns[n], cells[n], font)
    IN  drawn[Len(Columns)]

set_font(d, font) == [d EXCEPT !.renderer.font = font]

-----------------------------------------------------------------------------
Start == [renderer |-> renderer, ink |-> <<>>]
fits == row <= LastRow

\* One call of a page's draw; the next row is the following one, or none below the page.
Draws(d) == renderer' = d.renderer /\ ink' = d.ink /\ row' = row + 1 /\ UNCHANGED <<drawing, layout>>

DrawInit ==
    /\ drawing = FALSE /\ renderer = reset_state /\ layout \in BOOLEAN /\ row = 1 /\ ink = <<>>

\* The game draws, here and in its other windows.
GameDraws ==
    /\ drawing' = FALSE /\ renderer' \in Renderers /\ layout' \in BOOLEAN /\ row' = 1 /\ ink' = <<>>

begin ==
    /\ ~drawing /\ drawing' = TRUE /\ renderer' = reset_state /\ UNCHANGED <<layout, row, ink>>

\* Drawn wherever it is; behind it a marker at the sorted column, in the body font.
header(cells, sorted) ==
    /\ drawing /\ row <= LastRow + 1
    /\ LET d == set_font(draw_cells(set_font(Start, "header"), cells, "header"), "normal")
       IN  Draws(IF sorted THEN draw_text(d, "Left", [color |-> "black", mode |-> "Left", font |-> "normal"]) ELSE d)

table_row(cells) == drawing /\ fits /\ Draws(draw_cells(Start, cells, "normal"))

row_colored(cells) ==
    drawing /\ fits /\ Draws(draw_cells(Start, [i \in DOMAIN cells |-> Colored(Color, cells[i])], "normal"))

heading(align) ==
    /\ drawing /\ fits
    /\ LET meant == [color |-> "black", mode |-> align, font |-> "header"]
       IN  Draws(set_font(draw_text(set_font(Start, "header"), align, meant), "normal"))

\* A line of its own, prose among them.
line(align, cell) == drawing /\ fits /\ Draws(draw_cell(Start, align, cell, "normal"))

DrawNext ==
    \/ GameDraws \/ begin
    \/ \E cells \in [DOMAIN Columns -> HeaderCells], sorted \in BOOLEAN : header(cells, sorted)
    \/ \E cells \in [DOMAIN Columns -> Cells] : table_row(cells) \/ row_colored(cells)
    \/ \E align \in Aligns : heading(align) \/ \E cell \in Cells : line(align, cell)
DrawSpec == DrawInit /\ [][DrawNext]_drawVars

-----------------------------------------------------------------------------
(***************************************************************************)
(* Whatever a page drew before it, and whatever the game did between two   *)
(* draws, each text comes out in its own colour, aligned as its column is  *)
(* and in the face of its row, with and without a layout for rich text     *)
(* (draw_cell "Leaves the state as [Page::reset_state] does").             *)
(***************************************************************************)
InkIsRight ==
    /\ \A i \in DOMAIN ink : ink[i].came = ink[i].meant
    /\ drawing => renderer = reset_state
=============================================================================
