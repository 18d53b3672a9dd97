------------------------- MODULE MCContentAdmission -------------------------
(***************************************************************************)
(* Model checking ContentAdmission: two editor handlers, one collaboration *)
(* socket, the translator, the restore and one builder.                    *)
(***************************************************************************)
EXTENDS ContentAdmission

CONSTANTS h1, h2, s1, b1

MCHandlers == {h1, h2}
MCSessions == {s1}
MCBuilders == {b1}
MCEditors == MCHandlers \cup MCSessions
MCProducers == {Translate, Restore}
MCActors == MCEditors \cup MCProducers \cup MCBuilders
=============================================================================
