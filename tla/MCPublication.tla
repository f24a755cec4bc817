--------------------------- MODULE MCPublication ---------------------------
(* Instances of Publication for TLC. *)
EXTENDS Publication

TripUpdates == [s \in Stream |-> "trip_update"]
Undamaged == {}
FirstDamaged == {<<1, d>> : d \in Damage}
\* One damage for each of the steps that may notice it, or none; the rest is in
\* faults and misdirected.
FirstUnsure == {<<1, d>> : d \in {"data", "unparsable", "unmappable", "altered"}}
FirstMisdirected == {<<1, "misdirected">>, <<1, "data">>}
AllStreams == [destination |-> TRUE, streams |-> Stream]
Edits == {AllStreams, [destination |-> FALSE, streams |-> Stream],
          [destination |-> TRUE, streams |-> {}]}
Complete == {AllStreams}

\* Two revisions of one stream, the first with a manifest of an older version.
OneStream == [i \in Item |-> [stream |-> "victoria", date |-> 1, revision |-> i, legacy |-> i = 1]]
OneURL == [s \in Stream |-> [site |-> "tmix", query |-> "48"]]

\* The revisions of two streams of one site, told apart by their queries.
TwoStreams == [i \in Item |->
    [stream |-> IF i = 1 THEN "victoria" ELSE "kelowna", date |-> 1, revision |-> 1, legacy |-> FALSE]]
\* The same, the first with a manifest of an older version.
OneLegacy == [i \in Item |-> [TwoStreams[i] EXCEPT !.legacy = i = 1]]
TwoQueries == [s \in Stream |-> [site |-> "tmix", query |-> IF s = "victoria" THEN "48" ELSE "47"]]
\* Two streams of two sites.
TwoURLs == [s \in Stream |-> [site |-> s, query |-> "48"]]
=============================================================================
