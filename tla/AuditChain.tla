------------------------------ MODULE AuditChain ------------------------------
(***************************************************************************)
(* What the event store promises, with no processes, locks, row ids or     *)
(* clocks: an audit history that only grows at its newest end and is only  *)
(* cut at its oldest end.  Events are numbered 1, 2, ... in the order in   *)
(* which they entered the history; `live` holds the numbers still stored   *)
(* and `base` is the number of the newest event that was cut (0, the       *)
(* GENESIS anchor, when none was).                                         *)
(***************************************************************************)
EXTENDS Naturals

VARIABLES
  total,  \* how many events ever entered the history
  base,   \* the newest event cut off, the anchor of what is left
  live    \* the events still stored

chainVars == <<total, base, live>>

ChainInit == total = 0 /\ base = 0 /\ live = {}

\* One more event, after every other.
ChainAppend ==
  /\ total' = total + 1
  /\ live' = live \cup {total + 1}
  /\ UNCHANGED base

\* Cut every event up to and including k.
ChainPrune ==
  \E k \in live :
    /\ base' = k
    /\ live' = {h \in live : h > k}
    /\ UNCHANGED total

ChainNext == ChainAppend \/ ChainPrune

ChainSpec == ChainInit /\ [][ChainNext]_chainVars
===============================================================================
