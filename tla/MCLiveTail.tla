----------------------------- MODULE MCLiveTail -----------------------------
(* Constants for the runs of LiveTail. *)
EXTENDS LiveTail

CONSTANTS a, b, d

MCClients == {a, b, d}

Scene(json, html, events, messages, swings, breaks) ==
    [json |-> json, html |-> html, events |-> events, messages |-> messages,
     swings |-> swings, breaks |-> breaks]

\* Streams of one client, JSON or HTML, with events, a change of filter and a
\* client that stalls or leaves; two streams on one fan-out; the cap and the
\* watchdog with connections that come, go and are shed.
MCScenarios ==
    {Scene({a}, {}, 3, 1, 0, 0), Scene({a}, {}, 2, 1, 0, 1),
     Scene({a}, {}, 2, 2, 0, 0),
     Scene({}, {a}, 2, 1, 0, 2), Scene({a}, {b}, 1, 2, 0, 0),
     Scene({a}, {}, 1, 1, 1, 0), Scene({a, b, d}, {}, 0, 0, 2, 1)}
=============================================================================
