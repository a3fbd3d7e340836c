----------------------------- MODULE MCLogScan ------------------------------
(***************************************************************************)
(* LogScan for TLC: lines that differ in what each filter looks at.        *)
(***************************************************************************)
EXTENDS LogScan

Line(format, seconds, nanos, level, text, size) ==
    [format |-> format, seconds |-> seconds, nanos |-> nanos, level |-> level,
     text |-> text, size |-> size]

SomeLog ==
    <<Line("spdlog", 0, 3, "info", {"x"}, 1),
      Line("spdlog", 1, 2, "warn", {"x"}, 2),
      Line("other", 2, 0, "info", {"x"}, 1),
      Line("spdlog", 2, 1, "info", {"x"}, 2)>>

At(seconds, nanos) == [seconds |-> seconds, nanos |-> nanos]

Everything == [start |-> {}, end |-> {}, level_in |-> {}, grep_contains |-> {}]

SomeSpecs ==
    {[Everything EXCEPT !.start = {At(2, 2)}, !.end = {At(3, 0)}],
     [Everything EXCEPT !.level_in = {"INFO"}, !.grep_contains = {"x"}]}
=============================================================================
