---------------------------- MODULE MCAttendance ----------------------------
(* A pool of two rewards, so that three users exhaust it and race for its  *)
(* last reward, or two users claim it over two days.                       *)
EXTENDS Attendance

CONSTANTS u1, u2, u3

MCUsers2 == {u1, u2}
MCUsers3 == {u1, u2, u3}
=============================================================================
