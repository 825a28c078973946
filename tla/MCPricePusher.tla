--------------------------- MODULE MCPricePusher ---------------------------
(***************************************************************************)
(* Small instances of PricePusher.  From 20 to 26 takes two clamped steps, *)
(* 23 and 26, and 26 cannot be pushed on 20; on the way back and from      *)
(* wherever a target changes, every price from 20 to 26 is met.            *)
(***************************************************************************)
EXTENDS PricePusher

MCOneFeed == <<{20, 26}>>

=============================================================================
