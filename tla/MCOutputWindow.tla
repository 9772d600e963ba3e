------------------------------ MODULE MCOutputWindow ------------------------------
(* Every pair of bounds, valid or not, on an axis divided evenly, unevenly or  *)
(* not at all, across two or three windows on the other axis.                *)
EXTENDS OutputWindow

Axis(n, p, lo, hi) == [n |-> n, p |-> p, lo |-> lo, hi |-> hi]

AxisRequests ==
  {Axis(g[1], g[2], b[1], b[2]) :
     g \in {<<1, 1>>, <<4, 2>>, <<5, 2>>, <<7, 3>>}, b \in (-1..7) \X (-2..7)}

MCRequests ==
  {[y |-> y, x |-> x] :
     y \in {Axis(4, 2, 1, 2), Axis(5, 2, 3, -1), Axis(1, 1, 0, -1)}, x \in AxisRequests}
=================================================================================
