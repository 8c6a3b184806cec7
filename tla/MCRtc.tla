-------------------------------- MODULE MCRtc --------------------------------
(***************************************************************************)
(* Small instances of Rtc.  An emulated chip ticks whatever its divider    *)
(* says, so Ticking is all of Dividers.                                    *)
(***************************************************************************)
EXTENDS Rtc

MCRequests == {2, 3, 1024}
MCDividers == {"bios", "other"}
=============================================================================
