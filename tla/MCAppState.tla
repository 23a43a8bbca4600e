------------------------------- MODULE MCAppState -------------------------------
EXTENDS AppState

\* Of an item's length, its place and the notice of a load count one each.
Item(status, place, text) ==
  [kind |-> "direct", status |-> status, selection |-> FALSE, wellFormed |-> TRUE,
   queuedAt |-> TRUE, scheduledFor |-> status = "scheduled", sequence |-> place,
   completedAt |-> status = "completed", downloaded |-> 1, total |-> 2,
   text |-> text, added |-> IF place = None THEN 1 ELSE 0, error |-> 0]
Of(version, items) == [version |-> version, downloads |-> items]

\* No file; an old and a current queue, which a load makes too long to be saved;
\* one that is too long to be loaded; a newer one.
MCOriginals ==
  {NoFile,
   Of(2, <<Item("queued", None, 1), Item("downloading", None, 1),
           Item("scheduled", None, 1), Item("queued", None, 1)>>),
   Of(4, <<Item("cancelling", 3, 2), Item("completed", None, 2)>>),
   Of(5, <<Item("paused", 1, 5)>>),
   Of(6, << >>)}

\* The second fits until it is loaded, the third not with what is filled in.
MCContents ==
  {Default,
   Of(5, <<Item("queued", 1, 2), Item("downloading", 0, 2)>>),
   Of(5, <<Item("paused", None, 2), Item("failed", 1, 2)>>)}
=============================================================================
