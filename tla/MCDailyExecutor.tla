--------------------------- MODULE MCDailyExecutor ---------------------------
(***************************************************************************)
(* A small instance of DailyExecutor.  With packets of up to two bytes and *)
(* four in flight, three workers are sometimes too many and sometimes not. *)
(***************************************************************************)
EXTENDS DailyExecutor

Job(item, size) == [item |-> item, size |-> size]
Good == <<Job(0, 1), Job(2, 2), Job(1, 2), Job(3, 1)>>
Gap == <<Job(0, 1), Job(2, 1)>>
Twice == <<Job(0, 1), Job(1, 1), Job(0, 1)>>
TooLarge == <<Job(0, 1), Job(1, 3)>>
Unprepared == <<Job(0, 2), Job(NoItem, 1)>>
Lists == {<<>>, Good, Gap, Twice, TooLarge, Unprepared}
=============================================================================
