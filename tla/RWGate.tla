------------------------------- MODULE RWGate -------------------------------
(***************************************************************************)
(* What the editor gate promises its users, without its mutex, condition   *)
(* variable, counters or notifications: any number of editors share the    *)
(* gate until one producer claims it; a claimed gate admits nobody; the    *)
(* claim becomes exclusive only when the last editor has left; and every   *)
(* claim ends.  A crash forgets editors and claim together.                *)
(*                                                                         *)
(* EditorGate implements this specification (EditorGate!GateRefinement),   *)
(* and ContentAdmission is built on its actions.                           *)
(***************************************************************************)
CONSTANTS Editors,    \* requests and background writes that share the gate
          Producers,  \* jobs that need it exclusively
          NoProducer  \* "nobody claims the gate"

ASSUME RWGateAssumption ==
  /\ NoProducer \notin Producers
  /\ Editors \cap Producers = {}

VARIABLES readers,   \* the editors inside the gate
          claimant,  \* the producer that claimed the gate, or NoProducer
          exclusive  \* the claimant has seen the last editor leave

gateVars == <<readers, claimant, exclusive>>

GateTypeOK ==
  /\ readers \subseteq Editors
  /\ claimant \in Producers \cup {NoProducer}
  /\ exclusive \in BOOLEAN

GateInit ==
  /\ readers = {}
  /\ claimant = NoProducer
  /\ exclusive = FALSE

\* An editor enters an unclaimed gate.
Admit(e) ==
  /\ e \notin readers
  /\ claimant = NoProducer
  /\ readers' = readers \cup {e}
  /\ UNCHANGED <<claimant, exclusive>>

Leave(e) ==
  /\ e \in readers
  /\ readers' = readers \ {e}
  /\ UNCHANGED <<claimant, exclusive>>

\* The claim is published before the editors inside have left.
Claim(p) ==
  /\ claimant = NoProducer
  /\ claimant' = p
  /\ UNCHANGED <<readers, exclusive>>

Enter(p) ==
  /\ claimant = p
  /\ ~exclusive
  /\ readers = {}
  /\ exclusive' = TRUE
  /\ UNCHANGED <<readers, claimant>>

\* The claim ends: the job is done, or it gave up waiting for the editors.
Complete(p) ==
  /\ claimant = p
  /\ claimant' = NoProducer
  /\ exclusive' = FALSE
  /\ UNCHANGED readers

Crash ==
  /\ readers' = {}
  /\ claimant' = NoProducer
  /\ exclusive' = FALSE

GateNext ==
  \/ \E e \in Editors : Admit(e) \/ Leave(e)
  \/ \E p \in Producers : Claim(p) \/ Enter(p) \/ Complete(p)
  \/ Crash

GateSpec == GateInit /\ [][GateNext]_gateVars
=============================================================================
