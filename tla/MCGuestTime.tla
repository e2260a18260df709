---------------------------- MODULE MCGuestTime ----------------------------
(***************************************************************************)
(* GuestTime with two microseconds to the second, a local time one second  *)
(* ahead, years that end three seconds after the epoch, and doubles and    *)
(* microseconds on both sides of zero, of every remainder.                 *)
(***************************************************************************)
EXTENDS GuestTime

MCDoubles == {-6, -4, -1, 0, 1, 3, 8, 40}
MCUsecs == {-3, 0, 1}
MCMinTm == -1
==============================================================================
