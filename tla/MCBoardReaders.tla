--------------------------- MODULE MCBoardReaders ---------------------------
(* Instances of BoardReaders: one Home Assistant with an entry for each of two *)
(* boards, and a watch of the first board beside it.  The second board is of   *)
(* another product but advertises the older service, so a scan takes it too.   *)
EXTENDS BoardReaders, TLC

CONSTANTS b1, b2, c1, c2, w, p1, p2

TwoBoards == {b1, b2}
TwoEntries == {c1, c2}
OneWatch == {w}
OwnBoard == c1 :> b1 @@ c2 :> b2 @@ w :> b1
OwnProduct == c1 :> p1 @@ c2 :> p2 @@ w :> p1
FirstOrNone == {b1, None}
Adverts ==
  b1 :> [resembles |-> {}, service |-> "fd50", product |-> p1] @@
  b2 :> [resembles |-> {}, service |-> "a201", product |-> p2]
Signals == b1 :> {-80, 0} @@ b2 :> {-60}

=============================================================================
