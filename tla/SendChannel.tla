----------------------------- MODULE SendChannel -----------------------------
(***************************************************************************)
(* What SendAsync promises, seen from the two ends: the units the          *)
(* application hands over are buffered in the order in which they were     *)
(* accepted and reach the peer in that order, none twice and none skipped, *)
(* for as long as the connection lasts.  Buffered units are lost only      *)
(* after the connection was closed.                                        *)
(*                                                                         *)
(* Units are numbered 1, 2, ... as they are accepted.  Accept is possible  *)
(* while the channel is down: a call that found the client connected may   *)
(* append its data after the connection is gone.                           *)
(***************************************************************************)
EXTENDS Naturals, Sequences

VARIABLES up,         \* a connection is open
          accepted,   \* number of units accepted so far
          buffered,   \* accepted, not yet delivered and not dropped
          delivered   \* delivered on the present, or else the last, connection

chanVars == <<up, accepted, buffered, delivered>>

Init ==
    /\ up = FALSE
    /\ accepted = 0
    /\ buffered = <<>>
    /\ delivered = <<>>

Accept ==
    /\ accepted' = accepted + 1
    /\ buffered' = Append(buffered, accepted + 1)
    /\ UNCHANGED <<up, delivered>>

Deliver ==
    /\ up
    /\ \E n \in 1..Len(buffered) :
          /\ delivered' = delivered \o SubSeq(buffered, 1, n)
          /\ buffered' = SubSeq(buffered, n + 1, Len(buffered))
    /\ UNCHANGED <<up, accepted>>

Open ==
    /\ ~up
    /\ up' = TRUE
    /\ delivered' = <<>>
    /\ UNCHANGED <<accepted, buffered>>

Close ==
    /\ up
    /\ up' = FALSE
    /\ UNCHANGED <<accepted, buffered, delivered>>

Drop ==
    /\ ~up
    /\ buffered' = <<>>
    /\ UNCHANGED <<up, accepted, delivered>>

Next == Accept \/ Deliver \/ Open \/ Close \/ Drop

Spec == Init /\ [][Next]_chanVars

\* While the channel is up, what was delivered on the connection followed by
\* what is still buffered is a gapless stretch of the accepted units that ends
\* with the one accepted last.
Gapless ==
    up => LET s == delivered \o buffered
          IN \A i \in 1..Len(s) : s[i] = accepted - Len(s) + i
=============================================================================
