--------------------------- MODULE MCAvatarLoader ---------------------------
(* AvatarLoader for TLC: three addresses over a list of two entries makes   *)
(* every request compete for room, and leaves views that fit the list.      *)
EXTENDS AvatarLoader

=============================================================================
