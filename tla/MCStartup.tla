------------------------------ MODULE MCStartup ------------------------------
(***************************************************************************)
(* Instances of Startup for TLC: the command lines to start with.          *)
(***************************************************************************)
EXTENDS Startup

\* Every combination of flags, with a CPU list that is absent, right, too
\* short or names a core that does not exist, and a threshold that is valid or
\* not set.
MCFlags ==
  [ config_in_file : BOOLEAN, config_in_json : BOOLEAN,
    affinity : {<< >>, <<1, 0>>, <<0>>, <<0, 2>>}, fb303 : BOOLEAN,
    counter_name : BOOLEAN, counter_threshold : {-1, 1}, wait_for_target_ready : BOOLEAN ]
=============================================================================
