----------------------------- MODULE MCTimeStepping -----------------------------
(* A moist run with a tracer: every scheme among the scalars, and the top wind *)
(* predicted or not.                                                        *)
EXTENDS TimeStepping

MCThermo == {"th", "qv", "tracer"}
MCP3Reads == {"th", "qv"}

Plan(th, qv, tracer, vorticity, top) ==
  [scheme |-> [q \in Fields |-> CASE q = "th" -> th [] q = "qv" -> qv
                                  [] q = "tracer" -> tracer [] OTHER -> vorticity],
   top |-> top]

(* th and qv by the schemes that keep their previous state.                  *)
MCPlans ==
  {Plan(s, "AdamsBashforth2", t, v, top) :
     s \in {"AdamsBashforth2", "SSPRK2"}, t \in Schemes,
     v \in {"AdamsBashforth2", "ForwardEuler"}, top \in BOOLEAN}
=================================================================================
