------------------------------- MODULE MCSession -------------------------------
(***************************************************************************)
(* Small instances of Session for TLC.  The sets of inputs are given by    *)
(* the configurations: many edits for a connection that holds, a few for   *)
(* connections that break.                                                 *)
(***************************************************************************)
EXTENDS SessionRefinement

\* Without a drop (MaxDrops = 0) no message of the log is read again: states
\* that differ only in the past of the log behave alike.
ConnectedView == <<running, pc, todo, mirror, Len(messages), position, good,
                   net, server, Expected, drops>>

\* Either calculators are in use, or more of a builder is set than a car needs.
BuildersOrCalculators ==
    \/ mirror.car_calculators = EmptyMap
    \/ \A b \in DOMAIN mirror.car_builders :
          mirror.car_builders[b] =
              [DefaultBuilder EXCEPT !.ps = mirror.car_builders[b].ps,
                  !.purchase_value = mirror.car_builders[b].purchase_value]
=============================================================================
