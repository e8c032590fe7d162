---------------------------- MODULE MCHeaderList ----------------------------
(***************************************************************************)
(* HeaderList over four blocks, for TLC.                                   *)
(***************************************************************************)
EXTENDS HeaderList

\* Two of the addresses are a block's end away from another for every size.
MCNode == {0, 2, 3, 5}

\* Data that looks like a null link, and like a link to a block.
MCData == {Null, 3}

=============================================================================
