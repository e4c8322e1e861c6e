--------------------------- MODULE MCEventEngine ---------------------------
EXTENDS EventEngine

Conf(c, l, u, t, h, i, of) ==
  [cond |-> c, lower |-> l, upper |-> u, thr |-> t, hold |-> h, interval |-> i, of |-> of]

Every   == Conf("INTERVAL", 0, 0, 0, 0, 1, {1})
Above   == Conf("ABOVE", 2, 2, 1, 0, 0, {1})
Outside == Conf("OUTSIDE", 0, 4, 1, 0, 0, {1})
Changed == Conf("CHANGED", 0, 0, 0, 1, 0, {1})

(* A limit, a range or every change, and a report at intervals, on one     *)
(* endpoint.                                                               *)
MCConfigs == {<<Above, Every>>, <<Outside, Every>>, <<Changed, Every>>}
MCLimit   == {<<Above, Every>>}
=============================================================================
