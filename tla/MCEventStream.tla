--------------------------- MODULE MCEventStream ---------------------------
(* Instances of EventStream for TLC.                                        *)
EXTENDS EventStream

\* An empty trail; an empty page before a full one; well-formed events over
\* two pages; malformed ones first, last, twice in a page and over two pages.
MCTrails ==
  LET g == "good"
      m == "malformed"
  IN { << <<>> >>,
       << <<>>, <<g>> >>,
       << <<g, g>>, <<g>> >>,
       << <<m, g>>, <<g>> >>,
       << <<g>>, <<m>> >>,
       << <<m, m>>, <<g>> >>,
       << <<g, m>>, <<g, m>> >> }

MCLimits == {NoLimit, 0, 1, 2}
MCConsumers == {"ReadChannels", "RangeLoop"}

=============================================================================
