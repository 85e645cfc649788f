--------------------------- MODULE MCUpdateDelivery ---------------------------
(* UpdateDelivery for TLC: three updates of one chat that stay, or updates *)
(* of two chats of which the first expires.                                *)
EXTENDS UpdateDelivery

MCForever == 9
Kind(c, t) == [chat |-> c, life |-> t]
MCTraffic == {<<Kind(1, 9), Kind(1, 9), Kind(1, 9)>>,
              <<Kind(1, 0), Kind(0, 9), Kind(1, 9)>>}
MCFreshIds == {1}
MCLimits == {1}
MCRetryAfter == {0, 1}
MCFaults == {"crash", "torn", "loss", "error", "hangup"}
===============================================================================
