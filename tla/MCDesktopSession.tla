-------------------------- MODULE MCDesktopSession --------------------------
(* What the previous session may have left, to check DesktopSession with.     *)
EXTENDS DesktopSession

SomeCopies == {Broken, Unopenable, Restored}
ReadableCopy == {Restored}
=============================================================================
