------------------------------- MODULE Screen -------------------------------
(***************************************************************************)
(* How the panel shares the rows of the terminal (tui/view.go): a frame of *)
(* fixed rows around a body, which is the stream of requests or a          *)
(* command's output, and under it the prompt.  Everything is in rows; what *)
(* a row says and how wide it is are left out.                             *)
(***************************************************************************)
EXTENDS Integers, Sequences

minHeight      == 16
panelFixedRows == 7
panelMinRows   == panelFixedRows + 1
maxRouteRows   == 4
maxPendingRows == 3
maxCompletions == 8

Least(m, n)   == IF m < n THEN m ELSE n
Greatest(m, n) == IF m > n THEN m ELSE n

----------------------------------------------------------------------------
(* Below the panel.  A completion list is described by how many commands   *)
(* it has and whether the selected one tells a consequence.                *)

\* The rows of the list, the consequence's and the prompt's.
renderEntry(hits, tells, maxH) ==
    LET listRows == Greatest(0, maxH - 1)
        shows    == tells /\ listRows > 1
        window   == Least(maxCompletions, IF shows THEN listRows - 1 ELSE listRows)
    IN 1 + (IF shows THEN 1 ELSE 0)
         + (IF hits = 0 THEN Least(1, listRows) ELSE Least(hits, window))

renderConfirm(tells, maxH) == IF tells /\ maxH > 1 THEN 2 ELSE 1

renderBelowPanel(mode, hits, tells, maxH) ==
    CASE mode = "confirming" -> renderConfirm(tells, maxH)
      [] mode = "entry"      -> renderEntry(hits, tells, maxH)
      [] mode = "normal"     -> 1

belowHeight(height, mode, hits, tells) ==
    renderBelowPanel(mode, hits, tells, Greatest(1, height - panelMinRows))

----------------------------------------------------------------------------
(* The output of a command.                                                *)

\* Mutant of visibleResultRows: the row of the indicator is not reserved.
visibleRowsOfSlots(slots, total) == Greatest(0, Least(slots, total))

\* The lines that are shown: an indicator needs a row where they do not all fit.
visibleResultRows(slots, total) ==
    IF slots < 1 THEN 0 ELSE IF total <= slots THEN total ELSE slots - 1

resultSlots(height, below) == height - below - panelFixedRows - 1

resultViewHeight(height, below, total) ==
    Greatest(1, visibleResultRows(resultSlots(height, below), total))

maxScroll(height, below, total) ==
    Greatest(0, total - resultViewHeight(height, below, total))

\* The first and the last line drawn, and the rows it takes.
resultSection(top, total, body) ==
    LET view  == visibleResultRows(body - 1, total)
        first == IF top > total - view THEN Greatest(0, total - view) ELSE top
        drawn == 1 + view + (IF view < total THEN 1 ELSE 0)
    IN [first |-> first + 1, last |-> Least(total, first + view),
        rows |-> IF body - 1 < 1 THEN 1 ELSE Greatest(body, drawn)]

----------------------------------------------------------------------------
(* The stream: routes, requests in flight, then what has been completed.   *)

\* The rows of each kind, and whether the section's rule tells how many run.
streamSections(body, active, pending, recent) ==
    LET table  == Least(active, maxRouteRows)
        routes == IF table > 0 /\ body >= table + 3 THEN table ELSE 0
        used   == IF routes > 0 THEN routes + 1 ELSE 0
        slots  == body - used - 1
        shown  == Least(Least(pending, maxPendingRows), slots)
        more   == IF pending > shown /\ slots > shown THEN 1 ELSE 0
        done   == Least(recent, slots - shown - more)
    IN IF body - used < 2
       THEN [routes |-> routes, labelled |-> FALSE, shown |-> 0, more |-> 0, done |-> 0,
             rows |-> Greatest(used, body)]
       ELSE [routes |-> routes, labelled |-> TRUE, shown |-> shown, more |-> more, done |-> done,
             rows |-> Greatest(used + 1 + shown + more + done, body)]

----------------------------------------------------------------------------
\* The body gets what the rows of the frame leave, one row at least.
bodyRows(height, below) == Greatest(1, height - below - panelFixedRows)

\* The rows of the whole view, with an output of so many lines, or -1 for the
\* stream with these counts.
View(height, below, top, total, active, pending, recent) ==
    LET body == bodyRows(height, below)
    IN below + panelFixedRows +
       (IF total >= 0 THEN resultSection(top, total, body).rows
        ELSE streamSections(body, active, pending, recent).rows)
=============================================================================
