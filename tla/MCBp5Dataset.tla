------------------------------ MODULE MCBp5Dataset ------------------------------
(* Series of runs over two datasets and a link to one of them: fresh runs,      *)
(* restarts into the other dataset, replacements and appends, with and without *)
(* asynchronous writing, and a dataset left by a version of the model that did  *)
(* not store the step.                                                     *)
EXTENDS Bp5Dataset

CONSTANTS old, new, link

MCLinkTo == [l \in {link} |-> old]

Clock(dt, ignore) ==
  [dt |-> dt, ignore |-> ignore, has_legacy |-> FALSE, legacy |-> 0,
   filename |-> FALSE, file_interval |-> 1]

Fresh(p, existing, dt, i, total, initial, async) ==
  [path |-> p, existing |-> existing, restart |-> FALSE, source |-> p, step_index |-> -1,
   initial |-> initial, async |-> async, codec |-> TRUE, clock |-> Clock(dt, FALSE),
   interval |-> i, total |-> total]

From(src, k, c) == [c EXCEPT !.restart = TRUE, !.source = src, !.step_index = k]
Rederiving(c) == [c EXCEPT !.clock = Clock(c.clock.dt, TRUE)]
WithoutCodec(c) == [c EXCEPT !.codec = FALSE]

FreshRuns ==
  {Fresh(old, "error", 1, 2, 4, TRUE, a) : a \in BOOLEAN}
    \cup {Fresh(new, "replace", 2, 3, 5, FALSE, TRUE), Fresh(link, "replace", 1, 2, 3, TRUE, FALSE)}

Appends ==
  {From(src, k, Fresh(old, "append", 1, 2, 6, o, a)) :
     src \in {old, link}, k \in {-1, 0}, o \in BOOLEAN, a \in BOOLEAN}
    \cup {From(link, -1, Fresh(old, "append", 1, 3, 7, FALSE, TRUE)),
          From(old, -1, Rederiving(Fresh(old, "append", 2, 3, 8, FALSE, TRUE)))}

Rewrites ==
  {From(src, k, Fresh(new, x, 1, 2, 5, TRUE, FALSE)) :
     src \in {old, link}, k \in {-1, 1}, x \in {"error", "replace"}}
    \cup {From(src, -1, Fresh(old, "replace", 1, 2, 5, TRUE, FALSE)) : src \in {old, new, link}}
    \cup {From(old, -1, Fresh(new, "replace", 1, 2, 2, FALSE, FALSE))}

MCConfigs ==
  FreshRuns \cup Appends \cup Rewrites
    \cup {WithoutCodec(Fresh(old, "replace", 1, 2, 4, TRUE, FALSE))}

Older(t) ==
  [meta |-> [has_time |-> TRUE, time |-> t, has_step |-> FALSE, step |-> 0],
   dt |-> 0, interval |-> 0]

Bare == [present |-> {}, disk |-> [d \in Datasets |-> <<>>]]
Legacy ==
  [present |-> {old}, disk |-> [d \in Datasets |-> IF d = old THEN <<Older(0), Older(3)>> ELSE <<>>]]

MCFound == {Bare, Legacy}
=================================================================================
